---------------------------- MODULE Spec2Model ----------------------------
(***************************************************************************)
(* Client-side authentication token lifecycle of the React clean           *)
(* architecture template: TokenService (token store), AuthService (session *)
(* coordinator) and AxiosInterceptor (request gatekeeper).                  *)
(*                                                                         *)
(* JavaScript runs on one event loop.  An action of this model is one      *)
(* macrotask (a call from the application, or the arrival of a network     *)
(* response) together with every microtask it schedules: promise           *)
(* continuations run before the next macrotask, so the synchronous code    *)
(* up to the next network await, and the continuations of every waiter of  *)
(* a promise that settles, belong to the same action.                      *)
(***************************************************************************)
EXTENDS Integers, Sequences, FiniteSets, TLC

(***************************************************************************)
(* Bounds of the model.                                                    *)
(***************************************************************************)
NTasks == 3         \* concurrent callers (application code, outbound requests)
NCallers == 2       \* callers that use the session coordinator at once
MaxOps == 2         \* POST /auth/refresh calls that may be outstanding at once
MaxTicks == 2       \* clock advances
MaxTx == 3          \* transmissions of one request that are counted (saturating)
MaxRedirects == 2   \* assignments of window.location.href that are counted (saturating)
MaxCacheTicks == 4  \* clock advances of the fine clock
CacheStep == 10     \* seconds per advance of the fine clock

(***************************************************************************)
(* Program constants.                                                      *)
(***************************************************************************)
REFRESH_BUFFER_MINUTES == 5
TOKEN_CHECK_INTERVAL == 30000

RefreshBufferSeconds == REFRESH_BUFFER_MINUTES * 60

(***************************************************************************)
(* The clock.  `now' is wall-clock time in seconds: Date.now() is          *)
(* now * 1000 and Math.floor(Date.now() / 1000) is now.  The clock         *)
(* advances by one renewal buffer at a time; the server issues access      *)
(* tokens that live for two buffers, so that a token is seen fresh, inside *)
(* the renewal buffer, at its expiry instant and past it.                  *)
(***************************************************************************)
Step == RefreshBufferSeconds
TokenTTL == 2 * Step
StartTime == 2 * Step
EndTime == StartTime + MaxTicks * Step
DateNow(t) == t * 1000

Tasks == 1..NTasks
Callers == 1..NCallers
OpIds == 1..MaxOps

(***************************************************************************)
(* Tokens.  A token string is the sequence of its dot-separated segments   *)
(* (what token.split('.') returns); a segment is described by the JSON     *)
(* value its base64 text decodes to.  NoToken stands for null and for the  *)
(* empty string, which the code treats alike (both are falsy).             *)
(***************************************************************************)
NoToken == << >>

Seg(shape, iat, exp) == [shape |-> shape, iat |-> iat, exp |-> exp]
HdrSeg == Seg("hdr", 0, 0)
SigSeg == Seg("sig", 0, 0)
Jwt(payload) == <<HdrSeg, payload, SigSeg>>

\* access token carrying every claim
AccessTok(iat, exp) == Jwt(Seg("claims", iat, exp))
\* access token whose payload lacks one required claim
LackingTok(shape, iat, exp) == Jwt(Seg(shape, iat, exp))
\* three segments, the middle one not base64 of JSON
JunkTok == Jwt(Seg("junk", 0, 0))
\* JWT-shaped refresh token (its payload is JSON without the access claims)
RefreshJwt(n) == Jwt(Seg("rt", n, 0))
\* opaque refresh token such as "rt1": a single segment
OpaqueTok == <<Seg("opaque", 1, 0)>>
\* two segments only
TwoPartTok(iat, exp) == <<HdrSeg, Seg("claims", iat, exp)>>

JsonShapes == {"claims", "noUserId", "noEmail", "noIat", "noExp", "rt"}
LackingShapes == {"noUserId", "noEmail", "noIat", "noExp"}

NullPayload == [ok |-> FALSE, userId |-> "", email |-> "", iat |-> 0, exp |-> 0]

\* JSON.parse(atob(segment)): the claims object, or a failure.  An absent
\* string claim reads as "" and an absent number as 0: the code only tests
\* claims for falsiness, and undefined, "" and 0 are all falsy.
AtobJsonParse(seg) ==
    IF seg.shape \notin JsonShapes THEN NullPayload
    ELSE [ok |-> TRUE,
          userId |-> IF seg.shape \in {"claims", "noEmail", "noIat", "noExp"} THEN "u1" ELSE "",
          email |-> IF seg.shape \in {"claims", "noUserId", "noIat", "noExp"}
                    THEN "user@example.com" ELSE "",
          iat |-> IF seg.shape \in {"claims", "noUserId", "noEmail", "noExp"} THEN seg.iat ELSE 0,
          exp |-> IF seg.shape \in {"claims", "noUserId", "noEmail", "noIat"} THEN seg.exp ELSE 0]

(***************************************************************************)
(* TokenService.  An operator whose name ends in With is the rest of the   *)
(* function it is named after, given a value the function has computed.    *)
(***************************************************************************)
DecodeJWTPayload(token) ==
    IF Len(token) # 3 THEN NullPayload ELSE AtobJsonParse(token[2])

IsTokenValid(token) ==
    IF Len(token) # 3 THEN FALSE ELSE DecodeJWTPayload(token).ok

IsTokenExpiredWith(payload, t) ==
    IF ~payload.ok \/ payload.exp = 0 THEN TRUE ELSE payload.exp < t

IsTokenExpired(token, t) == IsTokenExpiredWith(DecodeJWTPayload(token), t)

\* getTokenPayload without the test of the required claims
GetTokenPayloadAnyClaims(payload) ==
    IF ~payload.ok THEN [ok |-> FALSE, err |-> "token_decode_failed", payload |-> NullPayload]
    ELSE [ok |-> TRUE, err |-> "", payload |-> payload]

GetTokenPayloadWith(payload) ==
    IF ~payload.ok THEN [ok |-> FALSE, err |-> "token_decode_failed", payload |-> NullPayload]
    ELSE IF payload.userId = "" \/ payload.email = "" \/ payload.exp = 0 \/ payload.iat = 0
         THEN [ok |-> FALSE, err |-> "token_missing_fields", payload |-> NullPayload]
         ELSE [ok |-> TRUE, err |-> "", payload |-> payload]

GetTokenPayload(token) == GetTokenPayloadWith(DecodeJWTPayload(token))

ValidateToken(token, t) ==
    IF ~IsTokenValid(token) THEN [isValid |-> FALSE, isExpired |-> FALSE]
    ELSE IF ~DecodeJWTPayload(token).ok THEN [isValid |-> FALSE, isExpired |-> FALSE]
         ELSE [isValid |-> TRUE, isExpired |-> IsTokenExpired(token, t)]

\* getTokenTimeRemaining without Math.max
GetTokenTimeRemainingUnclamped(payload, t) ==
    IF ~payload.ok \/ payload.exp = 0 THEN 0 ELSE payload.exp - t

GetTokenTimeRemainingWith(payload, t) ==
    IF ~payload.ok \/ payload.exp = 0 THEN 0
    ELSE IF payload.exp - t > 0 THEN payload.exp - t ELSE 0

GetTokenTimeRemaining(token, t) == GetTokenTimeRemainingWith(DecodeJWTPayload(token), t)

\* localStorage holds the two keys access_token and refresh_token.
EmptyStore == [access |-> NoToken, refresh |-> NoToken]

ClearTokens(s) == EmptyStore

\* getAccessToken that reports an expired token and leaves it in storage
GetAccessTokenKeepsExpired(s, validation) ==
    IF ~validation.isValid
    THEN [ok |-> FALSE, token |-> NoToken, err |-> "access_token_invalid",
          store |-> ClearTokens(s)]
    ELSE IF validation.isExpired
         THEN [ok |-> FALSE, token |-> NoToken, err |-> "access_token_expired", store |-> s]
         ELSE [ok |-> TRUE, token |-> s.access, err |-> "", store |-> s]

GetAccessTokenWith(s, validation) ==
    IF ~validation.isValid
    THEN [ok |-> FALSE, token |-> NoToken, err |-> "access_token_invalid",
          store |-> ClearTokens(s)]
    ELSE IF validation.isExpired
         THEN [ok |-> FALSE, token |-> NoToken, err |-> "access_token_expired",
               store |-> ClearTokens(s)]
         ELSE [ok |-> TRUE, token |-> s.access, err |-> "", store |-> s]

GetAccessToken(s, t) ==
    IF s.access = NoToken
    THEN [ok |-> FALSE, token |-> NoToken, err |-> "access_token_not_found", store |-> s]
    ELSE GetAccessTokenWith(s, ValidateToken(s.access, t))

\* getRefreshToken that reports an invalid token and leaves storage alone
GetRefreshTokenKeepsInvalid(s) ==
    IF s.refresh = NoToken
    THEN [ok |-> FALSE, token |-> NoToken, err |-> "refresh_token_not_found", store |-> s]
    ELSE IF ~IsTokenValid(s.refresh)
         THEN [ok |-> FALSE, token |-> NoToken, err |-> "refresh_token_invalid", store |-> s]
         ELSE [ok |-> TRUE, token |-> s.refresh, err |-> "", store |-> s]

GetRefreshToken(s) ==
    IF s.refresh = NoToken
    THEN [ok |-> FALSE, token |-> NoToken, err |-> "refresh_token_not_found", store |-> s]
    ELSE IF ~IsTokenValid(s.refresh)
         THEN [ok |-> FALSE, token |-> NoToken, err |-> "refresh_token_invalid",
               store |-> ClearTokens(s)]
         ELSE [ok |-> TRUE, token |-> s.refresh, err |-> "", store |-> s]

\* localStorage.setItem may throw (quota, storage unavailable); setStoredToken
\* rethrows and setTokens turns the exception into a failure value.  `fault'
\* says which of the two writes throws: "none", "access" or "refresh".
StorageFaults == {"none", "access", "refresh"}

\* setTokens that stores each token under the other one's key
SetTokensSwapped(s, accessToken, refreshToken, t, fault) ==
    IF ~ValidateToken(accessToken, t).isValid
    THEN [ok |-> FALSE, err |-> "invalid_access_token_format", store |-> s]
    ELSE IF ~IsTokenValid(refreshToken)
         THEN [ok |-> FALSE, err |-> "invalid_refresh_token_format", store |-> s]
         ELSE IF fault # "none"
              THEN [ok |-> FALSE, err |-> "token_storage_error", store |-> s]
              ELSE [ok |-> TRUE, err |-> "",
                    store |-> [access |-> refreshToken, refresh |-> accessToken]]

\* setTokens that stores the access token before it looks at the refresh token
SetTokensWritesFirst(s, accessToken, refreshToken, t, fault) ==
    IF ~ValidateToken(accessToken, t).isValid
    THEN [ok |-> FALSE, err |-> "invalid_access_token_format", store |-> s]
    ELSE IF ~IsTokenValid(refreshToken)
         THEN [ok |-> FALSE, err |-> "invalid_refresh_token_format",
               store |-> [s EXCEPT !.access = accessToken]]
         ELSE IF fault # "none"
              THEN [ok |-> FALSE, err |-> "token_storage_error", store |-> s]
              ELSE [ok |-> TRUE, err |-> "",
                    store |-> [access |-> accessToken, refresh |-> refreshToken]]

SetTokens(s, accessToken, refreshToken, t, fault) ==
    IF ~ValidateToken(accessToken, t).isValid
    THEN [ok |-> FALSE, err |-> "invalid_access_token_format", store |-> s]
    ELSE IF ~IsTokenValid(refreshToken)
         THEN [ok |-> FALSE, err |-> "invalid_refresh_token_format", store |-> s]
         ELSE IF fault = "access"
              THEN [ok |-> FALSE, err |-> "token_storage_error", store |-> s]
              ELSE IF fault = "refresh"
                   THEN [ok |-> FALSE, err |-> "token_storage_error",
                         store |-> [s EXCEPT !.access = accessToken]]
                   ELSE [ok |-> TRUE, err |-> "",
                         store |-> [access |-> accessToken, refresh |-> refreshToken]]

\* shouldRefreshToken with the renewal buffer's upper end left out
ShouldRefreshTokenExclusive(tokenResult, timeRemaining) ==
    [value |-> tokenResult.ok /\ timeRemaining < RefreshBufferSeconds /\ timeRemaining > 0,
     store |-> tokenResult.store]

ShouldRefreshTokenWith(tokenResult, timeRemaining) ==
    [value |-> tokenResult.ok /\ timeRemaining <= RefreshBufferSeconds /\ timeRemaining > 0,
     store |-> tokenResult.store]

ShouldRefreshTokenOf(tokenResult, t) ==
    ShouldRefreshTokenWith(tokenResult,
        IF tokenResult.ok THEN GetTokenTimeRemaining(tokenResult.token, t) ELSE 0)

ShouldRefreshToken(s, t) == ShouldRefreshTokenOf(GetAccessToken(s, t), t)

(***************************************************************************)
(* Values exchanged with callers and with the server.                      *)
(***************************************************************************)
\* Either<AppError, T>: ok is Right; code is the error slug of a Left, or a
\* tag of the Right value; access/refresh carry the token(s) of the value.
Res(ok, access, refresh, code) ==
    [ok |-> ok, access |-> access, refresh |-> refresh, code |-> code]
NoRes == Res(FALSE, NoToken, NoToken, "")
Left(code) == Res(FALSE, NoToken, NoToken, code)
RightTokens(access, refresh) == Res(TRUE, access, refresh, "tokens")
RightToken(access) == Res(TRUE, access, NoToken, "token")
RightBool(b) == Res(TRUE, NoToken, NoToken, IF b THEN "true" ELSE "false")

\* An HTTP outcome: status 0 is a network error (no response), -1 none yet.
Resp(status, access, refresh) == [status |-> status, access |-> access, refresh |-> refresh]
NoResp == Resp(-1, NoToken, NoToken)
ErrorStatuses == {401, 429, 500, 0}

\* Bodies the login endpoint may answer with at time t.  (Access tokens that
\* lack a claim are exercised on the token store directly, under SpecStore.)
LoginBodies(t) ==
    { Resp(200, a, r) :
        a \in {AccessTok(t, t + TokenTTL), NoToken},
        r \in {RefreshJwt(1), OpaqueTok, NoToken} }

\* Bodies the refresh endpoint may answer with at time t (the refresh token
\* is optional in the answer).
RefreshBodies(t) ==
    { Resp(200, a, r) :
        a \in {AccessTok(t, t + TokenTTL), JunkTok, NoToken},
        r \in {RefreshJwt(2), OpaqueTok, NoToken} }

ErrorResps == { Resp(st, NoToken, NoToken) : st \in ErrorStatuses }

(***************************************************************************)
(* Credentials.  An email is the sequence of its characters.               *)
(***************************************************************************)
IsSpace(c) == c = " "
NoSpaceAt(str, lo, hi) == \A k \in lo..hi : ~IsSpace(str[k]) /\ str[k] # "@"

\* email.trim(): leading and trailing whitespace removed
RECURSIVE TrimStart(_)
TrimStart(str) ==
    IF str # << >> /\ IsSpace(Head(str)) THEN TrimStart(Tail(str)) ELSE str

RECURSIVE TrimEnd(_)
TrimEnd(str) ==
    IF str # << >> /\ IsSpace(str[Len(str)])
    THEN TrimEnd(SubSeq(str, 1, Len(str) - 1))
    ELSE str

Trim(str) == TrimEnd(TrimStart(str))

\* email.toLowerCase(), on the letters the model's emails are written with
LowerChar(c) ==
    IF c = "U" THEN "u" ELSE IF c = "E" THEN "e" ELSE IF c = "C" THEN "c" ELSE c

ToLowerCase(str) == [k \in 1..Len(str) |-> LowerChar(str[k])]

GoodEmail == <<"u", "@", "e", ".", "c">>
UpperEmail == <<"U", "@", "E", ".", "c">>
PaddedEmail == <<" ", "U", "@", "e", ".", "c", " ">>
BadEmail == <<"n", "o", "t">>
NoTldEmail == <<"u", "@", "e">>
\* GoodEmail is the normalised form UpperEmail is transmitted in
Emails == {UpperEmail, PaddedEmail, BadEmail, NoTldEmail, << >>}
Passwords == {"secret1", ""}
Credentials == [email : Emails, password : Passwords]
NoCredentials == [email |-> << >>, password |-> ""]

(***************************************************************************)
(* Pages.  window.location is the pathname and the search of the page,     *)
(* each the sequence of the pieces it is written with, and the href the    *)
(* code has assigned (empty while it has assigned none).                   *)
(***************************************************************************)
AppPage ==
    [pathname |-> <<"/", "users">>, search |-> <<"?", "page", "=", "2">>, href |-> << >>]
LoginPage == [pathname |-> <<"/login">>, search |-> << >>, href |-> << >>]

(***************************************************************************)
(* State.                                                                  *)
(***************************************************************************)
VARIABLES
    now,             \* wall clock, seconds
    store,           \* localStorage: the keys access_token and refresh_token
    refreshPromise,  \* AuthService.refreshPromise: 0 (null) or a refresh call
    lastTokenCheck,  \* AuthService.lastTokenCheck, milliseconds
    ops,             \* outstanding POST /auth/refresh calls (performRefresh)
    tasks,           \* the callers: position, operation, result
    isRefreshing,    \* AxiosInterceptor.isRefreshing
    failedQueue,     \* AxiosInterceptor.failedQueue, in enqueue order
    raced,           \* history: a logout reset the lock under a refresh in flight
    sessionClosed,   \* history: a logout has cleared the store, no login wrote since
    location,        \* window.location: the page's pathname and search, the href assigned
    redirects,       \* history: how often window.location.href was assigned (saturating)
    isInitialized,   \* AxiosInterceptor.isInitialized
    interceptors,    \* request/response interceptor pairs registered on the axios instance
    view,            \* Session State held by the redux slice and by the context provider
    call             \* history: the last direct TokenService call

vars == <<now, store, refreshPromise, lastTokenCheck, ops, tasks, isRefreshing,
          failedQueue, raced, sessionClosed, location, redirects,
                   isInitialized, interceptors, view, call>>

Null == 0

\* Session State of one adapter: user is the claims object, NullPayload
\* for null; error is the message, "" for null
AuthState(isAuthenticated, isLoading, user, error) ==
    [isAuthenticated |-> isAuthenticated, isLoading |-> isLoading, user |-> user,
     error |-> error]

\* initialState of the slice and the initial state of the provider's reducer
InitialState == AuthState(FALSE, TRUE, NullPayload, "")

\* initialState of authSlice, which has the token's remaining time as well
initialState ==
    [isAuthenticated |-> FALSE, isLoading |-> TRUE, user |-> NullPayload, error |-> "",
     tokenTimeRemaining |-> 0]

\* Both adapters before anything ran.  sliceChecked and ctxChecked tell
\* that the adapter's start-up check has completed; seen is the slice as the
\* caller of the adapter finds it when its call resolves.
NoView ==
    [slice |-> initialState, ctx |-> InitialState, sliceChecked |-> FALSE,
     ctxChecked |-> FALSE, seen |-> initialState]

NoOp == [active |-> FALSE, rt |-> NoToken, waiters |-> << >>]

IdleTask == [pc |-> "idle", op |-> "none", frame |-> "none", res |-> NoRes,
             resp |-> NoResp, fault |-> "none", retry |-> FALSE, tx |-> 0,
             hdr |-> NoToken, cred |-> NoCredentials, sent |-> << >>, url |-> << >>,
             hooked |-> FALSE, ord |-> 0]

NoCall == [op |-> "none", pre |-> EmptyStore, at |-> 0, access |-> NoToken,
           refresh |-> NoToken, ok |-> FALSE, token |-> NoToken, err |-> "",
           payload |-> NullPayload, value |-> 0]

\* The mutable program state as one record, so that sequential code is the
\* composition of operators on it.  `blocked' is set when a step would need
\* more outstanding refresh calls than the model keeps.  `sends' counts the
\* requests dispatched in the current turn of the event loop and a request's
\* `ord' is its position among them.
World ==
    [store |-> store, refreshPromise |-> refreshPromise,
     lastTokenCheck |-> lastTokenCheck, ops |-> ops,
     tasks |-> [t \in Tasks |-> [tasks[t] EXCEPT !.ord = 0]],
     isRefreshing |-> isRefreshing, failedQueue |-> failedQueue,
     raced |-> raced, sessionClosed |-> sessionClosed, location |-> location,
     redirects |-> redirects, isInitialized |-> isInitialized,
     interceptors |-> interceptors, view |-> view,
     blocked |-> FALSE,
     sends |-> 0]

Commit(w) ==
    /\ ~w.blocked
    /\ store' = w.store
    /\ refreshPromise' = w.refreshPromise
    /\ lastTokenCheck' = w.lastTokenCheck
    /\ ops' = w.ops
    /\ tasks' = w.tasks
    /\ isRefreshing' = w.isRefreshing
    /\ failedQueue' = w.failedQueue
    /\ raced' = w.raced
    /\ sessionClosed' = w.sessionClosed
    /\ location' = w.location
    /\ redirects' = w.redirects
    /\ isInitialized' = w.isInitialized
    /\ interceptors' = w.interceptors
    /\ view' = w.view

ActiveOps(o) == {id \in OpIds : o[id].active}

\* A caller starts an operation: its record is reset.
Begin(w, t, op) ==
    [w EXCEPT !.tasks[t] = [IdleTask EXCEPT !.op = op, !.frame = op]]

\* A caller's operation returns r.  The caller is seen holding its result
\* (pc "done") before anything else runs; see Return.
Finish(w, t, r) ==
    [w EXCEPT !.tasks[t].pc = "done", !.tasks[t].res = r]

(***************************************************************************)
(* AuthService and AxiosInterceptor, as operators on the program state.    *)
(* n is the clock reading of the running macrotask.                        *)
(***************************************************************************)
\* isAuthenticated that only looks whether an access token is stored
IsAuthenticatedAnyToken(s, n) == s.access # NoToken

IsAuthenticated(s, n) == GetAccessToken(s, n).ok

GetCurrentUserWith(tokenResult) ==
    IF ~tokenResult.ok
    THEN [ok |-> FALSE, err |-> tokenResult.err, payload |-> NullPayload]
    ELSE GetTokenPayload(tokenResult.token)

GetCurrentUser(s, n) == GetCurrentUserWith(GetAccessToken(s, n))

\* a cleanup that resets the lock and the cache but leaves the tokens
LogoutCleanupKeepsTokens(w) ==
    [w EXCEPT !.refreshPromise = Null, !.lastTokenCheck = 0]

\* logout, "Nettoyage local obligatoire"
LogoutCleanup(w) ==
    [w EXCEPT !.store = ClearTokens(w.store),
              !.refreshPromise = Null,
              !.lastTokenCheck = 0]

\* history kept beside the cleanup
NoteLogout(w) ==
    [w EXCEPT !.raced = w.raced \/ ActiveOps(w.ops) # {},
              !.sessionClosed = TRUE]

\* encodeURIComponent, on the pieces the model's paths are written with
EncodeURIComponent(str) ==
    [k \in 1..Len(str) |->
        IF str[k] = "/" THEN "%2F" ELSE IF str[k] = "?" THEN "%3F"
        ELSE IF str[k] = "=" THEN "%3D" ELSE str[k]]

\* handleAuthenticationFailure after `await this.authService.logout()':
\* unless the pathname holds "/login", window.location.href is assigned
\* "/login?redirect=" and the encoded path and query.  The page stays as it
\* is until the navigation commits, which ends the program.
Redirect(w) ==
    IF \E k \in 1..Len(w.location.pathname) : w.location.pathname[k] = "/login"
    THEN w
    ELSE [w EXCEPT !.location.href =
                       <<"/login", "?", "redirect", "=">>
                           \o EncodeURIComponent(w.location.pathname \o w.location.search),
                   !.redirects = IF @ < MaxRedirects THEN @ + 1 ELSE @]

\* What runs after `await this.authService.logout()' or after logout()
\* itself, by the frame the caller is in.
AfterLogout(w, t) ==
    IF w.tasks[t].frame = "logout" THEN Finish(w, t, RightBool(TRUE))
    ELSE IF w.tasks[t].frame = "teardownRetry" THEN Finish(Redirect(w), t, Left("401"))
    ELSE Finish([Redirect(w) EXCEPT !.isRefreshing = FALSE], t, w.tasks[t].res)

\* logout() after POST /auth/logout answered or failed
LogoutContinue(w, t) == AfterLogout(NoteLogout(LogoutCleanup(w)), t)

\* logout that cleans up before it calls the server
LogoutCleansFirst(w, t, refreshTokenResult) ==
    IF refreshTokenResult.ok
    THEN [LogoutCleanup(w) EXCEPT !.tasks[t].pc = "logout_net"]
    ELSE LogoutContinue([w EXCEPT !.store = refreshTokenResult.store], t)

LogoutWith(w, t, refreshTokenResult) ==
    IF refreshTokenResult.ok
    THEN [w EXCEPT !.store = refreshTokenResult.store, !.tasks[t].pc = "logout_net"]
    ELSE LogoutContinue([w EXCEPT !.store = refreshTokenResult.store], t)

\* logout() up to its network call; without a valid refresh token it runs
\* to its end.
Logout(w, t) == LogoutWith(w, t, GetRefreshToken(w.store))

HandleAuthenticationFailure(w, t) == Logout(w, t)

\* getValidToken() up to the point where it would await refreshToken():
\* kind is "right" (a token), "left" (authentication required) or
\* "refresh" (refreshToken() is to be awaited).
GetValidTokenRefresh(w, sr) ==
    [w |-> [w EXCEPT !.store = sr.store],
     kind |-> IF sr.value THEN "refresh" ELSE "left",
     token |-> NoToken]

GetValidTokenFull(w, n, r2) ==
    IF r2.ok
    THEN [w |-> [w EXCEPT !.store = r2.store, !.lastTokenCheck = DateNow(n)],
          kind |-> "right", token |-> r2.token]
    ELSE GetValidTokenRefresh(w, ShouldRefreshToken(r2.store, n))

\* getValidToken whose recent-check path returns the stored token unexamined
GetValidTokenCacheStale(w, n, recent, r1) ==
    IF recent /\ w.store.access # NoToken
    THEN [w |-> w, kind |-> "right", token |-> w.store.access]
    ELSE GetValidTokenFull(w, n, GetAccessToken(w.store, n))

GetValidTokenCache(w, n, recent, r1) ==
    IF recent /\ r1.ok
    THEN [w |-> w, kind |-> "right", token |-> r1.token]
    ELSE GetValidTokenFull(w, n, GetAccessToken(IF recent THEN r1.store ELSE w.store, n))

GetValidTokenSync(w, n) ==
    GetValidTokenCache(w, n, DateNow(n) - w.lastTokenCheck < TOKEN_CHECK_INTERVAL,
                       GetAccessToken(w.store, n))

\* the request leaves the client, with the response interceptors that are
\* installed at this moment in its chain; ord is its rank among the requests
\* that leave in the same macrotask
Send(w, t, hdr) ==
    [w EXCEPT !.tasks[t].pc = "sent",
              !.tasks[t].hdr = hdr,
              !.tasks[t].tx = IF @ < MaxTx THEN @ + 1 ELSE @,
              !.tasks[t].hooked = w.interceptors > 0,
              !.tasks[t].ord = w.sends + 1,
              !.sends = w.sends + 1]

\* The outcome of calling refreshToken(): either the caller now awaits a
\* refresh in flight (settled is FALSE), or the promise settled at once
\* with `outcome' and the caller goes on in the same macrotask.
Awaiting(w) == [w |-> w, settled |-> FALSE, outcome |-> NoRes]
Settled(w, outcome) == [w |-> w, settled |-> TRUE, outcome |-> outcome]

FreeOp(o) == CHOOSE i \in OpIds : ~o[i].active /\ \A j \in 1..(i - 1) : o[j].active

PerformRefreshStartWith(w, t, refreshTokenResult) ==
    IF ~refreshTokenResult.ok
    THEN Settled([w EXCEPT !.store = refreshTokenResult.store, !.refreshPromise = Null],
                 Left(refreshTokenResult.err))
    ELSE IF ActiveOps(w.ops) = OpIds
         THEN Awaiting([w EXCEPT !.blocked = TRUE])
         ELSE Awaiting([w EXCEPT !.store = refreshTokenResult.store,
                                 !.ops[FreeOp(w.ops)] = [active |-> TRUE,
                                                         rt |-> refreshTokenResult.token,
                                                         waiters |-> <<t>>],
                                 !.refreshPromise = FreeOp(w.ops),
                                 !.tasks[t].pc = "refresh_wait"])

\* performRefresh() up to POST /auth/refresh; without a valid refresh token
\* the promise settles at once and refreshToken() returns its failure.
PerformRefreshStart(w, t) == PerformRefreshStartWith(w, t, GetRefreshToken(w.store))

\* a refreshToken() without the lock: every call starts its own refresh
JoinRefreshStartsAnother(w, t) == PerformRefreshStart(w, t)

\* a caller that finds a refresh in flight awaits the same promise
JoinRefresh(w, t) ==
    Awaiting([w EXCEPT !.ops[w.refreshPromise].waiters = Append(@, t),
                       !.tasks[t].pc = "refresh_wait"])

\* refreshToken() up to its await
RefreshToken(w, t) ==
    IF w.refreshPromise # Null THEN JoinRefresh(w, t) ELSE PerformRefreshStart(w, t)

RequestInterceptorRefresh(t, preset, r) ==
    IF r.settled
    THEN Send(r.w, t, IF r.outcome.ok THEN r.outcome.access ELSE preset)
    ELSE r.w

\* request interceptor that attaches the stored refresh token
RequestInterceptorSendsRefresh(t, preset, g) ==
    IF g.kind = "right" THEN Send(g.w, t, g.w.store.refresh)
    ELSE IF g.kind = "left" THEN Send(g.w, t, preset)
    ELSE RequestInterceptorRefresh(t, preset,
             RefreshToken([g.w EXCEPT !.tasks[t].frame = "reqGetValidToken",
                                      !.tasks[t].hdr = preset], t))

RequestInterceptorWith(t, preset, g) ==
    IF g.kind = "right" THEN Send(g.w, t, g.token)
    ELSE IF g.kind = "left" THEN Send(g.w, t, preset)
    ELSE RequestInterceptorRefresh(t, preset,
             RefreshToken([g.w EXCEPT !.tasks[t].frame = "reqGetValidToken",
                                      !.tasks[t].hdr = preset], t))

\* isAuthRoute(url): some auth route occurs somewhere in the URL.  A URL is
\* the sequence of the pieces it is written with, an auth route being one
\* piece, so that url.includes(route) is: route is one of the pieces.
AuthRoutes == {"/auth/login", "/auth/refresh", "/auth/logout", "/auth/register"}
IsAuthRoute(url) == \E route \in AuthRoutes : \E i \in 1..Len(url) : url[i] = route

\* request interceptor, then the transmission; preset is the Authorization
\* header the request carries into the interceptor.
RequestInterceptor(w, t, preset, n) ==
    IF w.interceptors = 0 \/ IsAuthRoute(w.tasks[t].url)
    THEN Send(w, t, preset)
    ELSE RequestInterceptorWith(t, preset, GetValidTokenSync(w, n))

RECURSIVE ReplayAll(_, _, _, _)
ReplayAll(w, q, token, n) ==
    IF q = << >> THEN w
    ELSE ReplayAll(RequestInterceptor(w, Head(q), token, n), Tail(q), token, n)

RECURSIVE RejectAll(_, _, _)
RejectAll(w, q, err) ==
    IF q = << >> THEN w ELSE RejectAll(Finish(w, Head(q), err), Tail(q), err)

\* processQueue that serves the last queued request first
ProcessQueueLifo(w, outcome, n) ==
    IF outcome.ok
    THEN ReplayAll([w EXCEPT !.failedQueue = << >>],
                   [k \in 1..Len(w.failedQueue) |->
                       w.failedQueue[Len(w.failedQueue) + 1 - k]],
                   outcome.access, n)
    ELSE RejectAll([w EXCEPT !.failedQueue = << >>], w.failedQueue, outcome)

\* processQueue(error, token) with the callbacks of the queued requests
ProcessQueue(w, outcome, n) ==
    IF outcome.ok
    THEN ReplayAll([w EXCEPT !.failedQueue = << >>], w.failedQueue, outcome.access, n)
    ELSE RejectAll([w EXCEPT !.failedQueue = << >>], w.failedQueue, outcome)

\* the `finally' of the response interceptor
EndRefreshing(w) == [w EXCEPT !.isRefreshing = FALSE]

\* the failure branch of the response interceptor: the error is kept for
\* the rejection that follows the teardown
BeginTeardown(w, t, outcome) ==
    [w EXCEPT !.tasks[t].frame = "teardownRefresh", !.tasks[t].res = outcome]

\* What a caller of refreshToken() does with its outcome.
Continue(w, t, outcome, n) ==
    IF w.tasks[t].frame = "refreshToken" THEN Finish(w, t, outcome)
    ELSE IF w.tasks[t].frame = "getValidToken"
    THEN Finish(w, t, IF outcome.ok THEN RightToken(outcome.access)
                      ELSE Left("authentication_required"))
    ELSE IF w.tasks[t].frame = "checkTokenExpiration"
    THEN Finish(w, t, IF outcome.ok THEN RightBool(TRUE) ELSE outcome)
    ELSE IF w.tasks[t].frame = "reqGetValidToken"
    THEN Send(w, t, IF outcome.ok THEN outcome.access ELSE w.tasks[t].hdr)
    ELSE \* response interceptor, after `await this.authService.refreshToken()'
         IF outcome.ok
         THEN EndRefreshing(
                  ProcessQueue(RequestInterceptor(w, t, outcome.access, n), outcome, n))
         ELSE HandleAuthenticationFailure(
                  BeginTeardown(ProcessQueue(w, outcome, n), t, outcome), t)

RECURSIVE ContinueAll(_, _, _, _)
ContinueAll(w, waiters, outcome, n) ==
    IF waiters = << >> THEN w
    ELSE ContinueAll(Continue(w, Head(waiters), outcome, n), Tail(waiters), outcome, n)

PerformRefreshStore(w, resp, newRefresh, n, setResult) ==
    IF ~setResult.ok
    THEN [w |-> [w EXCEPT !.store = ClearTokens(setResult.store)],
          outcome |-> Left(setResult.err)]
    ELSE [w |-> [w EXCEPT !.store = setResult.store, !.lastTokenCheck = DateNow(n)],
          outcome |-> RightTokens(resp.access, newRefresh)]

PerformRefreshTokens(w, resp, newRefresh, fault, n) ==
    PerformRefreshStore(w, resp, newRefresh, n,
                        SetTokens(w.store, resp.access, newRefresh, n, fault))

\* performRefresh that keeps the refresh token it was called with
PerformRefreshKeepsOld(w, rt, resp, fault, n) ==
    IF resp.status # 200
    THEN [w |-> [w EXCEPT !.store = ClearTokens(w.store)],
          outcome |-> Left(IF resp.status = 401 THEN "refresh_expired" ELSE "refresh_error")]
    ELSE IF resp.access = NoToken
    THEN [w |-> [w EXCEPT !.store = ClearTokens(w.store)], outcome |-> Left("refresh_failed")]
    ELSE PerformRefreshTokens(w, resp, rt, fault, n)

\* performRefresh() after POST /auth/refresh answered or failed; rt is the
\* refresh token the call was made with
PerformRefreshContinue(w, rt, resp, fault, n) ==
    IF resp.status # 200
    THEN [w |-> [w EXCEPT !.store = ClearTokens(w.store)],
          outcome |-> Left(IF resp.status = 401 THEN "refresh_expired" ELSE "refresh_error")]
    ELSE IF resp.access = NoToken
    THEN [w |-> [w EXCEPT !.store = ClearTokens(w.store)], outcome |-> Left("refresh_failed")]
    ELSE PerformRefreshTokens(w, resp, IF resp.refresh # NoToken THEN resp.refresh ELSE rt,
                              fault, n)

\* history: the race is over once no refresh call is outstanding
NoteSettled(w) == [w EXCEPT !.raced = w.raced /\ ActiveOps(w.ops) # {}]

\* refreshToken() after its await, in the caller that started the refresh
RefreshTokenContinue(w, id) == [w EXCEPT !.refreshPromise = Null, !.ops[id] = NoOp]

SettleRefreshWith(waiters, id, pr, n) ==
    NoteSettled(ContinueAll(RefreshTokenContinue(pr.w, id), waiters, pr.outcome, n))

\* The refresh call `id' settles: performRefresh ends, the caller that
\* started it resets refreshPromise, and every awaiting caller goes on.
SettleRefresh(w, id, resp, fault, n) ==
    SettleRefreshWith(w.ops[id].waiters, id,
                      PerformRefreshContinue(w, w.ops[id].rt, resp, fault, n), n)

\* an email check that only looks for the "@"
IsValidEmailHasAt(email) == \E i \in 1..Len(email) : email[i] = "@"

\* /^[^\s@]+@[^\s@]+\.[^\s@]+$/.test(email)
IsValidEmail(email) ==
    \E i \in 1..Len(email), j \in 1..Len(email) :
        /\ 1 < i /\ i + 1 < j /\ j < Len(email)
        /\ email[i] = "@" /\ email[j] = "."
        /\ NoSpaceAt(email, 1, i - 1)
        /\ NoSpaceAt(email, i + 1, j - 1)
        /\ NoSpaceAt(email, j + 1, Len(email))

\* login() up to POST /auth/login; `sent' is the email of the request body
LoginValidate(w, t, credentials) ==
    IF credentials.email = << >> \/ credentials.password = ""
    THEN Finish(w, t, Left("missing_credentials"))
    ELSE IF ~IsValidEmail(credentials.email)
         THEN Finish(w, t, Left("invalid_email_format"))
         ELSE [w EXCEPT !.tasks[t].pc = "login_net",
                        !.tasks[t].sent = ToLowerCase(Trim(credentials.email))]

Login(w, t, credentials) ==
    LoginValidate([w EXCEPT !.tasks[t].cred = credentials], t, credentials)

\* history: a login that wrote to the store ends the closed session
NoteLoginWrite(w, s) ==
    [w EXCEPT !.store = s, !.sessionClosed = w.sessionClosed /\ s = w.store]

LoginStore(w, t, resp, n, setResult) ==
    IF ~setResult.ok
    THEN Finish(NoteLoginWrite(w, setResult.store), t, Left(setResult.err))
    ELSE Finish([NoteLoginWrite(w, setResult.store) EXCEPT !.lastTokenCheck = DateNow(n)], t,
                RightTokens(resp.access, resp.refresh))

\* login() without its catch: the rejection of POST /auth/login reaches the
\* caller
LoginContinueNoCatch(w, t, resp, fault, n) ==
    IF resp.status # 200 THEN Finish(w, t, Left("request_error"))
    ELSE IF resp.access = NoToken \/ resp.refresh = NoToken
    THEN Finish(w, t, Left("invalid_auth_response"))
    ELSE LoginStore(w, t, resp, n, SetTokens(w.store, resp.access, resp.refresh, n, fault))

\* login() after POST /auth/login answered or failed
LoginContinue(w, t, resp, fault, n) ==
    IF resp.status = 401 THEN Finish(w, t, Left("invalid_credentials"))
    ELSE IF resp.status = 429 THEN Finish(w, t, Left("too_many_attempts"))
    ELSE IF resp.status # 200 THEN Finish(w, t, Left("login_error"))
    ELSE IF resp.access = NoToken \/ resp.refresh = NoToken
    THEN Finish(w, t, Left("invalid_auth_response"))
    ELSE LoginStore(w, t, resp, n, SetTokens(w.store, resp.access, resp.refresh, n, fault))

CallRefreshWith(t, n, r) ==
    IF r.settled THEN Continue(r.w, t, r.outcome, n) ELSE r.w

\* a call of refreshToken() by task t, in the frame the task is in
CallRefresh(w, t, n) == CallRefreshWith(t, n, RefreshToken(w, t))

GetValidTokenWith(t, n, g) ==
    IF g.kind = "right" THEN Finish(g.w, t, RightToken(g.token))
    ELSE IF g.kind = "left" THEN Finish(g.w, t, Left("authentication_required"))
    ELSE CallRefresh(g.w, t, n)

\* getValidToken()
GetValidToken(w, t, n) == GetValidTokenWith(t, n, GetValidTokenSync(w, n))

CheckTokenExpirationValid(w, t, tokenResult) ==
    IF tokenResult.ok
    THEN Finish([w EXCEPT !.store = tokenResult.store], t, RightBool(FALSE))
    ELSE Finish([w EXCEPT !.store = tokenResult.store], t, Left("token_invalid"))

CheckTokenExpirationWith(w, t, n, sr) ==
    IF sr.value THEN CallRefresh([w EXCEPT !.store = sr.store], t, n)
    ELSE CheckTokenExpirationValid(w, t, GetAccessToken(sr.store, n))

\* checkTokenExpiration()
CheckTokenExpiration(w, t, n) ==
    CheckTokenExpirationWith(w, t, n, ShouldRefreshToken(w.store, n))

\* the answer reaches the caller as it came: the request's promise settles
\* with the response, or with the error that carries the response's status
PassThrough(w, t, status) ==
    Finish([w EXCEPT !.tasks[t].resp = Resp(status, NoToken, NoToken)], t,
           IF status = 200 THEN RightBool(TRUE) ELSE Left("request_error"))

\* a response interceptor that treats the auth endpoints like any other
ResponseInterceptorAllRoutes(w, t, status, n) ==
    IF status # 401 \/ ~w.tasks[t].hooked
    THEN PassThrough(w, t, status)
    ELSE IF w.tasks[t].retry
    THEN HandleAuthenticationFailure([w EXCEPT !.tasks[t].frame = "teardownRetry"], t)
    ELSE IF w.isRefreshing
    THEN [w EXCEPT !.failedQueue = Append(@, t), !.tasks[t].pc = "queued"]
    ELSE CallRefresh([w EXCEPT !.tasks[t].retry = TRUE,
                               !.tasks[t].frame = "reqRefresh",
                               !.isRefreshing = TRUE], t, n)

\* response interceptor, on the answer to a request
ResponseInterceptor(w, t, status, n) ==
    IF status # 401 \/ ~w.tasks[t].hooked
    THEN PassThrough(w, t, status)
    ELSE IF IsAuthRoute(w.tasks[t].url)
    THEN PassThrough(w, t, status)
    ELSE IF w.tasks[t].retry
    THEN HandleAuthenticationFailure([w EXCEPT !.tasks[t].frame = "teardownRetry"], t)
    ELSE IF w.isRefreshing
    THEN [w EXCEPT !.failedQueue = Append(@, t), !.tasks[t].pc = "queued"]
    ELSE CallRefresh([w EXCEPT !.tasks[t].retry = TRUE,
                               !.tasks[t].frame = "reqRefresh",
                               !.isRefreshing = TRUE], t, n)

(***************************************************************************)
(* The session state adapters: the redux slice with its thunks and the     *)
(* useAuth hook, and the context provider.  An action is its type, the     *)
(* claims it carries (NullPayload for none) and the message it carries.    *)
(***************************************************************************)
Action(type, user, error) == [type |-> type, user |-> user, error |-> error, payload |-> 0]

\* the action creators of authSlice.reducers
ClearError == Action("auth/clearError", NullPayload, "")
UpdateTokenTime(payload) ==
    [Action("auth/updateTokenTime", NullPayload, "") EXCEPT !.payload = payload]

\* a logout case that leaves the user in the state
LogoutFulfilledKeepsUser(state) == [state EXCEPT !.isAuthenticated = FALSE, !.error = ""]

\* the case of logoutProvider.fulfilled
LogoutFulfilled(state) ==
    [state EXCEPT !.isAuthenticated = FALSE, !.user = NullPayload, !.error = ""]

\* authSlice.reducer: reducers and extraReducers
AuthSlice(state, action) ==
    IF action.type = "auth/clearError"
    THEN [state EXCEPT !.error = ""]
    ELSE IF action.type = "auth/updateTokenTime"
    THEN [state EXCEPT !.tokenTimeRemaining = action.payload]
    ELSE IF action.type = "auth/checkAuth/rejected"
    THEN [state EXCEPT !.isLoading = FALSE, !.isAuthenticated = FALSE,
                       !.user = NullPayload, !.error = action.error]
    ELSE
    IF action.type = "auth/login/pending"
    THEN [state EXCEPT !.isLoading = TRUE, !.error = ""]
    ELSE IF action.type = "auth/login/fulfilled"
    THEN [state EXCEPT !.isLoading = FALSE, !.isAuthenticated = TRUE, !.user = action.user]
    ELSE IF action.type = "auth/login/rejected"
    THEN [state EXCEPT !.isLoading = FALSE, !.error = action.error,
                       !.isAuthenticated = FALSE, !.user = NullPayload]
    ELSE IF action.type = "auth/logout/fulfilled"
    THEN LogoutFulfilled(state)
    ELSE IF action.type = "auth/checkAuth/pending"
    THEN [state EXCEPT !.isLoading = TRUE]
    ELSE IF action.type = "auth/checkAuth/fulfilled"
    THEN [state EXCEPT !.isLoading = FALSE, !.isAuthenticated = action.user.ok,
                       !.user = action.user]
    ELSE state

\* authReducer of the context provider
AuthReducer(state, action) ==
    IF action.type = "AUTH_START"
    THEN [state EXCEPT !.isLoading = TRUE, !.error = ""]
    ELSE IF action.type = "AUTH_SUCCESS"
    THEN [state EXCEPT !.isLoading = FALSE, !.isAuthenticated = TRUE,
                       !.user = action.user, !.error = ""]
    ELSE IF action.type = "AUTH_FAILURE"
    THEN [state EXCEPT !.isLoading = FALSE, !.isAuthenticated = FALSE,
                       !.user = NullPayload, !.error = action.error]
    ELSE IF action.type = "AUTH_LOGOUT"
    THEN [state EXCEPT !.isAuthenticated = FALSE, !.user = NullPayload, !.error = ""]
    ELSE state

\* store.dispatch(action) and the provider's dispatch(action)
Dispatch(w, action) ==
    IF action.type \in {"AUTH_START", "AUTH_SUCCESS", "AUTH_FAILURE", "AUTH_LOGOUT"}
    THEN [w EXCEPT !.view.ctx = AuthReducer(@, action)]
    ELSE [w EXCEPT !.view.slice = AuthSlice(@, action)]

\* the promise an adapter returned to its caller settles with r: the caller
\* resumes and finds the slice as it is now
Resolve(w, t, r) == Finish([w EXCEPT !.view.seen = w.view.slice], t, r)

\* a call of the coordinator's operation `frame' through the adapter
\* operation op
BeginVia(w, t, frame, op) == [Begin(w, t, frame) EXCEPT !.tasks[t].op = op]

\* loginProvider and useAuth().login after authService.login() resolved
\* Right: getCurrentUser() has read the stored access token
LoginProviderUser(w, t, tokenResult) ==
    IF GetCurrentUserWith(tokenResult).ok
    THEN Resolve(Dispatch([w EXCEPT !.store = tokenResult.store],
                          Action("auth/login/fulfilled",
                                 GetCurrentUserWith(tokenResult).payload, "")),
                 t, RightBool(TRUE))
    ELSE Resolve(Dispatch([w EXCEPT !.store = tokenResult.store],
                          Action("auth/login/rejected", NullPayload, "no_user_data")),
                 t, Left("login_failed"))

\* AuthProvider.login after authService.login() resolved Right
ProviderLoginUser(w, t, tokenResult) ==
    IF GetCurrentUserWith(tokenResult).ok
    THEN Resolve(Dispatch([w EXCEPT !.store = tokenResult.store],
                          Action("AUTH_SUCCESS", GetCurrentUserWith(tokenResult).payload, "")),
                 t, RightBool(TRUE))
    ELSE Resolve([w EXCEPT !.store = tokenResult.store], t, RightBool(TRUE))

\* What the adapter does once the coordinator's promise has resolved, in
\* the same turn of the event loop.
Settle(w, t, n) ==
    IF w.tasks[t].pc # "done" THEN w
    ELSE IF w.tasks[t].op = "slice.login"
    THEN IF w.tasks[t].res.ok
         THEN LoginProviderUser(w, t, GetAccessToken(w.store, n))
         ELSE Resolve(Dispatch(w, Action("auth/login/rejected", NullPayload,
                                         w.tasks[t].res.code)),
                      t, Left("login_failed"))
    ELSE IF w.tasks[t].op = "ctx.login"
    THEN IF w.tasks[t].res.ok
         THEN ProviderLoginUser(w, t, GetAccessToken(w.store, n))
         ELSE Resolve(Dispatch(w, Action("AUTH_FAILURE", NullPayload, w.tasks[t].res.code)),
                      t, w.tasks[t].res)
    ELSE IF w.tasks[t].op = "slice.logout"
    THEN Resolve(Dispatch(w, Action("auth/logout/fulfilled", NullPayload, "")),
                 t, RightBool(TRUE))
    ELSE Resolve(Dispatch(w, Action("AUTH_LOGOUT", NullPayload, "")), t, w.tasks[t].res)

\* the payload creator of checkAuthProvider and the fulfilled action that
\* follows it
CheckAuthProviderWith(w, tokenResult) ==
    [Dispatch([w EXCEPT !.store = tokenResult.store],
              Action("auth/checkAuth/fulfilled", GetCurrentUserWith(tokenResult).payload, ""))
        EXCEPT !.view.sliceChecked = TRUE]

\* useAuth().checkAuth(): dispatch(checkAuthProvider()) is not awaited.  The
\* thunk dispatches pending at once and fulfilled some microtasks after its
\* payload creator returned; the promise of checkAuth() is resolved when
\* dispatch() returns, and its caller resumes before the fulfilled action.
CheckAuth(w, t, n) ==
    CheckAuthProviderWith(
        Resolve(Dispatch(w, Action("auth/checkAuth/pending", NullPayload, "")),
                t, RightBool(TRUE)),
        GetAccessToken(w.store, n))

\* the mount effect of AuthProvider (mounted stays true)
ProviderCheckAuthWith(w, tokenResult) ==
    [Dispatch([w EXCEPT !.store = tokenResult.store],
              IF ~tokenResult.ok THEN Action("AUTH_LOGOUT", NullPayload, "")
              ELSE IF GetCurrentUserWith(tokenResult).ok
              THEN Action("AUTH_SUCCESS", GetCurrentUserWith(tokenResult).payload, "")
              ELSE Action("AUTH_FAILURE", NullPayload, "invalid_session"))
        EXCEPT !.view.ctxChecked = TRUE]

(***************************************************************************)
(* UsersRepository.  A data source call resolves with a value (recorded as *)
(* status 200), rejects with an AppError (500) or rejects with any other   *)
(* error (0); tx counts the data source calls of the operation.            *)
(***************************************************************************)
UsersOperations == {"getUsers", "getUserById", "createUser", "updateUser", "deleteUser"}

\* an operation that goes on to the data source whatever getValidToken()
\* returned
UsersAfterTokenAnyway(w, t) ==
    IF w.tasks[t].pc # "done" THEN w
    ELSE [w EXCEPT !.tasks[t].pc = "ds_net", !.tasks[t].hdr = w.tasks[t].res.access,
                   !.tasks[t].tx = @ + 1, !.tasks[t].res = NoRes]

\* an operation once getValidToken() has resolved: a Left is returned as it
\* is, a Right's token goes to the data source
UsersAfterToken(w, t) ==
    IF w.tasks[t].pc # "done" \/ ~w.tasks[t].res.ok THEN w
    ELSE [w EXCEPT !.tasks[t].pc = "ds_net", !.tasks[t].hdr = w.tasks[t].res.access,
                   !.tasks[t].tx = @ + 1, !.tasks[t].res = NoRes]

\* the data source call has settled: right(value), or the catch clause
UsersAfterDataSource(w, t, status) ==
    Finish([w EXCEPT !.tasks[t].resp = Resp(status, NoToken, NoToken)], t,
           IF status = 200 THEN RightBool(TRUE)
           ELSE IF status = 500 THEN Left("001")
           ELSE Left("000"))

(***************************************************************************)
(* The state machine.                                                      *)
(***************************************************************************)
\* A session persisted by an earlier page load: a token pair issued one
\* step before the start, now inside its renewal buffer.
StoredSession ==
    [access |-> AccessTok(StartTime - Step, StartTime + Step), refresh |-> RefreshJwt(1)]

Init ==
    /\ now = StartTime
    /\ store \in {EmptyStore, StoredSession}
    /\ refreshPromise = Null
    /\ lastTokenCheck = 0
    /\ ops = [id \in OpIds |-> NoOp]
    /\ tasks = [t \in Tasks |-> IdleTask]
    /\ isRefreshing = FALSE
    /\ failedQueue = << >>
    /\ raced = FALSE
    /\ sessionClosed = FALSE
    /\ location = LoginPage
    /\ redirects = 0
    /\ isInitialized = TRUE
    /\ interceptors = 1
    /\ view = NoView
    /\ call = NoCall

\* No caller is holding a result it has not taken yet.
Quiet == \A t \in Tasks : tasks[t].pc # "done"

Tick ==
    /\ Quiet
    /\ now < EndTime
    /\ now' = now + Step
    /\ UNCHANGED <<store, refreshPromise, lastTokenCheck, ops, tasks, isRefreshing,
                   failedQueue, raced, sessionClosed, location, redirects,
                   isInitialized, interceptors, view, call>>

Idle(t) == Quiet /\ tasks[t].pc = "idle"

\* The callers that hold a result take it.  Nothing else runs between the
\* end of an operation and this step, so the state in which a caller is
\* "done" is the state its operation returned in.
Return ==
    /\ ~Quiet
    /\ tasks' = [t \in Tasks |-> IF tasks[t].pc = "done" THEN IdleTask ELSE tasks[t]]
    /\ UNCHANGED <<now, store, refreshPromise, lastTokenCheck, ops, isRefreshing,
                   failedQueue, raced, sessionClosed, location, redirects,
                   isInitialized, interceptors, view, call>>

CallLogin(t, credentials) ==
    /\ Idle(t)
    /\ Commit(Login(Begin(World, t, "login"), t, credentials))
    /\ UNCHANGED <<now, call>>

LoginResponse(t, resp, fault) ==
    /\ Quiet
    /\ tasks[t].pc = "login_net"
    /\ Commit(LoginContinue([World EXCEPT !.tasks[t].resp = resp, !.tasks[t].fault = fault],
                             t, resp, fault, now))
    /\ UNCHANGED <<now, call>>

CallLogout(t) ==
    /\ Idle(t)
    /\ Commit(Logout(Begin(World, t, "logout"), t))
    /\ UNCHANGED <<now, call>>

\* POST /auth/logout answers or fails (of a logout() call, or of the
\* logout inside handleAuthenticationFailure); the outcome is ignored.
LogoutResponse(t, status) ==
    /\ Quiet
    /\ tasks[t].pc = "logout_net"
    /\ Commit(LogoutContinue([World EXCEPT !.tasks[t].resp = Resp(status, NoToken, NoToken)], t))
    /\ UNCHANGED <<now, call>>

CallRefreshToken(t) ==
    /\ Idle(t)
    /\ Commit(CallRefresh(Begin(World, t, "refreshToken"), t, now))
    /\ UNCHANGED <<now, call>>

RefreshResponse(id, resp, fault) ==
    /\ Quiet
    /\ ops[id].active
    /\ Commit(SettleRefresh(World, id, resp, fault, now))
    /\ UNCHANGED <<now, call>>

CallGetValidToken(t) ==
    /\ Idle(t)
    /\ Commit(GetValidToken(Begin(World, t, "getValidToken"), t, now))
    /\ UNCHANGED <<now, call>>

CallCheckTokenExpiration(t) ==
    /\ Idle(t)
    /\ Commit(CheckTokenExpiration(Begin(World, t, "checkTokenExpiration"), t, now))
    /\ UNCHANGED <<now, call>>

\* isAuthenticated(): synchronous; getAccessToken purges a token it rejects
CallIsAuthenticated(t) ==
    /\ Idle(t)
    /\ Commit(Finish([Begin(World, t, "isAuthenticated")
                         EXCEPT !.store = GetAccessToken(store, now).store],
                     t, RightBool(IsAuthenticated(store, now))))
    /\ UNCHANGED <<now, call>>

\* URLs the application requests through the axios instance: a resource, an
\* auth endpoint, and a resource whose path holds an auth route without
\* ending in it ("/api/auth/login-attempts")
RequestUrls ==
    {<<"/api/users">>, <<"/auth/register">>, <<"/api", "/auth/login", "-attempts">>}

\* the application issues a request
SendRequest(t, url) ==
    /\ Idle(t)
    /\ Commit(RequestInterceptor([Begin(World, t, "request") EXCEPT !.tasks[t].url = url],
                                 t, NoToken, now))
    /\ UNCHANGED <<now, call>>

RequestResponse(t, status) ==
    /\ Quiet
    /\ tasks[t].pc = "sent"
    /\ Commit(ResponseInterceptor(World, t, status, now))
    /\ UNCHANGED <<now, call>>

Next ==
    \/ Tick
    \/ Return
    \/ \E t \in Callers, credentials \in Credentials : CallLogin(t, credentials)
    \/ \E t \in Tasks, resp \in LoginBodies(now) \cup ErrorResps, fault \in StorageFaults :
           LoginResponse(t, resp, fault)
    \/ \E t \in Callers : CallLogout(t)
    \/ \E t \in Tasks, status \in {200, 500} : LogoutResponse(t, status)
    \/ \E t \in Callers : CallRefreshToken(t)
    \/ \E id \in OpIds, resp \in RefreshBodies(now) \cup ErrorResps, fault \in StorageFaults :
           RefreshResponse(id, resp, fault)
    \/ \E t \in Callers : CallGetValidToken(t)
    \/ \E t \in Callers : CallCheckTokenExpiration(t)
    \/ \E t \in Callers : CallIsAuthenticated(t)
    \/ \E t \in Callers, url \in RequestUrls : SendRequest(t, url)
    \/ \E t \in Tasks, status \in {200, 401, 500} : RequestResponse(t, status)

Spec == Init /\ [][Next]_vars

(***************************************************************************)
(* The request gatekeeper on its own: up to NTasks requests through the    *)
(* axios instance over a stored session, from an application page, with   *)
(* the interceptors installed and removed.  An assignment to               *)
(* window.location.href starts a navigation; location.pathname keeps its  *)
(* value until the navigation commits, which ends the program.             *)
(***************************************************************************)
InitGate ==
    /\ now = StartTime
    /\ store = StoredSession
    /\ refreshPromise = Null
    /\ lastTokenCheck = 0
    /\ ops = [id \in OpIds |-> NoOp]
    /\ tasks = [t \in Tasks |-> IdleTask]
    /\ isRefreshing = FALSE
    /\ failedQueue = << >>
    /\ raced = FALSE
    /\ sessionClosed = FALSE
    /\ location = AppPage
    /\ redirects = 0
    /\ isInitialized = TRUE
    /\ interceptors = 1
    /\ view = NoView
    /\ call = NoCall

\* initialize() without its early return
InitializeUnguarded ==
    /\ Quiet
    /\ interceptors' = interceptors + 1
    /\ isInitialized' = TRUE
    /\ UNCHANGED <<now, store, refreshPromise, lastTokenCheck, ops, tasks, isRefreshing,
                   failedQueue, raced, sessionClosed, location, redirects, view, call>>

\* initialize(): returns at once when isInitialized is set, else registers
\* one request and one response interceptor and sets it
Initialize ==
    /\ Quiet
    /\ interceptors' = IF isInitialized THEN interceptors ELSE interceptors + 1
    /\ isInitialized' = TRUE
    /\ UNCHANGED <<now, store, refreshPromise, lastTokenCheck, ops, tasks, isRefreshing,
                   failedQueue, raced, sessionClosed, location, redirects, view, call>>

\* destroy(): removes the interceptors and resets the gatekeeper's state;
\* the callbacks of the queued requests are dropped with the queue
Destroy ==
    /\ Quiet
    /\ isRefreshing' = FALSE
    /\ failedQueue' = << >>
    /\ interceptors' = 0
    /\ isInitialized' = FALSE
    /\ UNCHANGED <<now, store, refreshPromise, lastTokenCheck, ops, tasks, raced,
                   sessionClosed, location, redirects, view, call>>

\* what the refresh endpoint answers here: a new access token without a
\* refresh token, or 401
GateRefreshResps == {Resp(200, AccessTok(StartTime, StartTime + TokenTTL), NoToken),
                     Resp(401, NoToken, NoToken)}

\* the requests are interchangeable: a new one takes the first free slot
FirstIdle(t) == \A u \in 1..(t - 1) : tasks[u].pc # "idle"

NextGate ==
    \/ Return
    \/ \E t \in Tasks, url \in {<<"/api/users">>, <<"/auth/register">>} :
           isInitialized /\ FirstIdle(t) /\ SendRequest(t, url)
    \/ \E t \in Tasks, status \in {200, 401, 500} : RequestResponse(t, status)
    \/ \E id \in OpIds, resp \in GateRefreshResps : RefreshResponse(id, resp, "none")
    \/ \E t \in Tasks, status \in {200, 500} : LogoutResponse(t, status)
    \/ Initialize
    \/ Destroy

SpecGate == InitGate /\ [][NextGate]_vars

(***************************************************************************)
(* The session state adapters over the coordinator: logins, logouts and    *)
(* checks through the redux hook and through the context provider, on a    *)
(* stored session or on empty storage.                                     *)
(***************************************************************************)
InitView ==
    /\ now = StartTime
    /\ store \in {EmptyStore, StoredSession}
    /\ refreshPromise = Null
    /\ lastTokenCheck = 0
    /\ ops = [id \in OpIds |-> NoOp]
    /\ tasks = [t \in Tasks |-> IdleTask]
    /\ isRefreshing = FALSE
    /\ failedQueue = << >>
    /\ raced = FALSE
    /\ sessionClosed = FALSE
    /\ location = LoginPage
    /\ redirects = 0
    /\ isInitialized = TRUE
    /\ interceptors = 1
    /\ view = NoView
    /\ call = NoCall

\* what the user types: a valid pair, and one with a malformed email
ViewCredentials ==
    {[email |-> UpperEmail, password |-> "secret1"],
     [email |-> BadEmail, password |-> "secret1"]}

\* what the login endpoint answers: a token pair, a pair whose access token
\* lacks the userId claim, or 401
ViewLoginResps ==
    {Resp(200, AccessTok(StartTime, StartTime + TokenTTL), RefreshJwt(1)),
     Resp(200, LackingTok("noUserId", StartTime, StartTime + TokenTTL), RefreshJwt(1)),
     Resp(401, NoToken, NoToken)}

\* useAuth().login (dispatch(loginProvider(credentials)) dispatches pending
\* at once) and AuthProvider.login, up to the answer of the server
ViewLogin(t, op, credentials) ==
    /\ Idle(t)
    /\ Commit(Settle(Login(Dispatch(BeginVia(World, t, "login", op),
                                    Action(IF op = "slice.login" THEN "auth/login/pending"
                                           ELSE "AUTH_START", NullPayload, "")),
                           t, credentials),
                     t, now))
    /\ UNCHANGED <<now, call>>

ViewLoginResponse(t, resp) ==
    /\ Quiet
    /\ tasks[t].pc = "login_net"
    /\ Commit(Settle(LoginContinue([World EXCEPT !.tasks[t].resp = resp], t, resp, "none", now),
                     t, now))
    /\ UNCHANGED <<now, call>>

\* useAuth().logout and AuthProvider.logout
ViewLogout(t, op) ==
    /\ Idle(t)
    /\ Commit(Settle(Logout(BeginVia(World, t, "logout", op), t), t, now))
    /\ UNCHANGED <<now, call>>

ViewLogoutResponse(t, status) ==
    /\ Quiet
    /\ tasks[t].pc = "logout_net"
    /\ Commit(Settle(LogoutContinue([World EXCEPT !.tasks[t].resp = Resp(status, NoToken, NoToken)],
                                    t),
                     t, now))
    /\ UNCHANGED <<now, call>>

\* useAuth().checkAuth(), and the dispatch of initializeApp()
ViewCheckAuth(t) ==
    /\ Idle(t)
    /\ Commit(CheckAuth(BeginVia(World, t, "checkAuth", "slice.checkAuth"), t, now))
    /\ UNCHANGED <<now, call>>

\* AuthProvider mounts: its effect runs once
ProviderCheckAuth ==
    /\ Quiet
    /\ ~view.ctxChecked
    /\ Commit(ProviderCheckAuthWith(World, GetAccessToken(store, now)))
    /\ UNCHANGED <<now, call>>

NextView ==
    \/ Return
    \/ \E t \in Callers, op \in {"slice.login", "ctx.login"}, credentials \in ViewCredentials :
           ViewLogin(t, op, credentials)
    \/ \E t \in Callers, resp \in ViewLoginResps : ViewLoginResponse(t, resp)
    \/ \E t \in Callers, op \in {"slice.logout", "ctx.logout"} : ViewLogout(t, op)
    \/ \E t \in Callers, status \in {200, 500} : ViewLogoutResponse(t, status)
    \/ \E t \in Callers : ViewCheckAuth(t)
    \/ ProviderCheckAuth
    \/ \E t \in Callers : CallRefreshToken(t)
    \/ \E id \in OpIds, resp \in GateRefreshResps : RefreshResponse(id, resp, "none")

SpecView == InitView /\ [][NextView]_vars

(***************************************************************************)
(* getValidToken() on a fine clock: the clock advances by less than        *)
(* TOKEN_CHECK_INTERVAL, and the stored tokens expire within a few         *)
(* readings, so that a call falls within 30 s of the previous full check   *)
(* with a token that expired in between.                                   *)
(***************************************************************************)
CacheEnd == StartTime + MaxCacheTicks * CacheStep

\* expiry instants between the clock readings
CacheExpiries == { StartTime + k * CacheStep + 5 : k \in 0..MaxCacheTicks }

CacheStores ==
    { [access |-> AccessTok(StartTime - Step, e), refresh |-> RefreshJwt(1)] :
          e \in CacheExpiries }

\* the answers to POST /auth/refresh: a pair whose access token lives for
\* one and a half clock steps, or a refusal
CacheRefreshResps(t) ==
    {Resp(200, AccessTok(t, t + CacheStep + 5), RefreshJwt(2)), Resp(401, NoToken, NoToken)}

InitCache ==
    /\ now = StartTime
    /\ store \in CacheStores
    /\ refreshPromise = Null
    /\ lastTokenCheck = 0
    /\ ops = [id \in OpIds |-> NoOp]
    /\ tasks = [t \in Tasks |-> IdleTask]
    /\ isRefreshing = FALSE
    /\ failedQueue = << >>
    /\ raced = FALSE
    /\ sessionClosed = FALSE
    /\ location = LoginPage
    /\ redirects = 0
    /\ isInitialized = TRUE
    /\ interceptors = 1
    /\ view = NoView
    /\ call = NoCall

CacheTick ==
    /\ Quiet
    /\ now < CacheEnd
    /\ now' = now + CacheStep
    /\ UNCHANGED <<store, refreshPromise, lastTokenCheck, ops, tasks, isRefreshing,
                   failedQueue, raced, sessionClosed, location, redirects,
                   isInitialized, interceptors, view, call>>

NextCache ==
    \/ CacheTick
    \/ Return
    \/ \E t \in Callers : CallGetValidToken(t)
    \/ \E t \in Callers : CallRefreshToken(t)
    \/ \E id \in OpIds, resp \in CacheRefreshResps(now) : RefreshResponse(id, resp, "none")

SpecCache == InitCache /\ [][NextCache]_vars

(***************************************************************************)
(* The redux slice on its own: any sequence of the actions that the three  *)
(* thunks and the two action creators of authSlice put on the store.       *)
(***************************************************************************)
\* the claims a thunk can carry: getCurrentUser() returned them as a Right
SliceUsers ==
    { GetTokenPayload(token).payload :
          token \in {AccessTok(StartTime, StartTime + TokenTTL), AccessTok(Step, StartTime)} }

\* the values of rejectWithValue
SliceErrors ==
    {"missing_credentials", "invalid_email_format", "invalid_credentials",
     "too_many_attempts", "login_error", "invalid_auth_response", "no_user_data",
     "check_failed"}

SliceActions ==
    { Action(type, NullPayload, "") :
          type \in {"auth/login/pending", "auth/logout/pending", "auth/logout/fulfilled",
                    "auth/checkAuth/pending"} }
        \cup { Action("auth/login/fulfilled", user, "") : user \in SliceUsers }
        \cup { Action("auth/checkAuth/fulfilled", user, "") :
                   user \in SliceUsers \cup {NullPayload} }
        \cup { Action(type, NullPayload, error) :
                   type \in {"auth/login/rejected", "auth/logout/rejected",
                             "auth/checkAuth/rejected"},
                   error \in SliceErrors }
        \cup {ClearError}
        \cup { UpdateTokenTime(payload) : payload \in {0, RefreshBufferSeconds, TokenTTL} }

\* store.dispatch(action)
SliceDispatch(action) ==
    /\ view' = [view EXCEPT !.slice = AuthSlice(@, action)]
    /\ UNCHANGED <<now, store, refreshPromise, lastTokenCheck, ops, tasks, isRefreshing,
                   failedQueue, raced, sessionClosed, location, redirects,
                   isInitialized, interceptors, call>>

NextSlice == \E action \in SliceActions : SliceDispatch(action)

SpecSlice == InitView /\ [][NextSlice]_vars

(***************************************************************************)
(* The users repository over the session coordinator.                      *)
(***************************************************************************)
\* getUsers, getUserById, createUser, updateUser, deleteUser up to the data
\* source call
UsersRepositoryCall(t, op) ==
    /\ Idle(t)
    /\ Commit(UsersAfterToken(GetValidToken(BeginVia(World, t, "getValidToken", op), t, now), t))
    /\ UNCHANGED <<now, call>>

DataSourceResponse(t, status) ==
    /\ Quiet
    /\ tasks[t].pc = "ds_net"
    /\ Commit(UsersAfterDataSource(World, t, status))
    /\ UNCHANGED <<now, call>>

NextUsers ==
    \/ Tick
    \/ Return
    \/ \E t \in Callers, op \in UsersOperations : UsersRepositoryCall(t, op)
    \/ \E t \in Callers, status \in {200, 500, 0} : DataSourceResponse(t, status)

SpecUsers == Init /\ [][NextUsers]_vars

\* three dot-separated segments, the middle one decodable to a JSON object
StructurallyValid(token) == Len(token) = 3 /\ token[2].shape \in JsonShapes

\* the exp claim of a structurally valid token, 0 when it carries none
ExpOf(token) ==
    IF StructurallyValid(token) /\ token[2].shape \notin {"noExp", "rt"}
    THEN token[2].exp ELSE 0

\* remaining lifetime r of a token at time t, in seconds
Lifetime(token, t) == IF ExpOf(token) > t THEN ExpOf(token) - t ELSE 0

(***************************************************************************)
(* Properties of the session coordinator and the request gatekeeper        *)
(* (checked under Spec).                                                   *)
(***************************************************************************)
\* an access token that carries every required claim
WellFormedAccess(token) ==
    /\ Len(token) = 3
    /\ token[2].shape = "claims"
    /\ token[2].iat > 0
    /\ token[2].exp > 0

\* an access token that decodes but lacks a required claim
LacksClaim(token) == Len(token) = 3 /\ token[2].shape \in LackingShapes

Done(t) == tasks[t].pc = "done"

\* the step in which caller t calls operation op
Calls(t, op) == tasks[t].pc = "idle" /\ tasks'[t].op = op

\* a stored access token that decodes and whose exp has passed
ExpiredAccess(s, n) ==
    /\ s.access # NoToken
    /\ ValidateToken(s.access, n).isValid
    /\ ValidateToken(s.access, n).isExpired

\* C1: if no logout intervenes, refreshToken() calls made while a refresh
\* is in flight issue no further POST /auth/refresh: one call is outstanding
\* for the whole group, it is the one refreshPromise holds, and all the
\* callers that return together hold the same outcome.
C1_SingleFlight ==
    ~raced =>
        /\ Cardinality(ActiveOps(ops)) <= 1
        /\ \A id \in ActiveOps(ops) : refreshPromise = id
        /\ \A t1, t2 \in Tasks :
               (Done(t1) /\ Done(t2) /\ tasks[t1].op = "refreshToken"
                   /\ tasks[t2].op = "refreshToken") => tasks[t1].res = tasks[t2].res

\* C1 witness: two refreshToken() callers have returned together with the
\* same token pair, no logout having intervened.
C1_Witness ==
    /\ ~raced
    /\ \E t1, t2 \in Tasks :
           /\ t1 # t2
           /\ Done(t1) /\ Done(t2)
           /\ tasks[t1].op = "refreshToken" /\ tasks[t2].op = "refreshToken"
           /\ tasks[t1].res.ok
           /\ tasks[t1].res = tasks[t2].res

\* C2: a getValidToken() call made while the stored access token is expired
\* and a valid refresh token is stored awaits a refresh (it starts one or
\* joins the one in flight).
C2_ExpiredTokenIsRefreshed ==
    [][\A t \in Tasks :
           (Calls(t, "getValidToken") /\ ExpiredAccess(store, now)
               /\ GetRefreshToken(store).ok) => tasks'[t].pc = "refresh_wait"]_vars

\* C3: in every reachable state at most one POST /auth/refresh is
\* outstanding.
C3_AtMostOneRefreshOutstanding == Cardinality(ActiveOps(ops)) <= 1

\* C4: once logout has cleared the store, both tokens stay absent and
\* isAuthenticated() stays false until the next login writes; a refresh
\* that was in flight does not write its result.
C4_NoWriteAfterLogout ==
    sessionClosed => (store = EmptyStore /\ ~IsAuthenticated(store, now))

\* C5: when logout() returns (called by the application, or by the
\* gatekeeper's forced logout), both tokens are absent from storage and
\* isAuthenticated() is false, whether POST /auth/logout succeeded, failed
\* or was never made.
C5_LogoutClears ==
    \A t \in Tasks :
        (Done(t) /\ tasks[t].frame \in {"logout", "teardownRetry", "teardownRefresh"}) =>
            (store = EmptyStore /\ ~IsAuthenticated(store, now))

\* C5 witness: logout() has returned after POST /auth/logout failed, while
\* a refresh is still in flight.
C5_Witness ==
    \E t \in Tasks :
        /\ Done(t)
        /\ tasks[t].op = "logout"
        /\ tasks[t].resp.status = 500
        /\ tasks[t].res.ok
        /\ ActiveOps(ops) # {}

\* C6: no request to a non-auth endpoint, queued ones included, is
\* transmitted a third time.
C6_NoThirdTransmission ==
    \A t \in Tasks : tasks[t].op = "request" => tasks[t].tx <= 2

\* C7: whenever refreshToken() returns a failure, both tokens are absent
\* from storage.
C7_FailedRefreshClears ==
    \A t \in Tasks :
        (Done(t) /\ tasks[t].op = "refreshToken" /\ ~tasks[t].res.ok) => store = EmptyStore

\* C10: when login() was answered with a well-formed access token whose exp
\* is in the future and any non-empty refresh token, and storage took the
\* writes, login has succeeded, the pair is stored, isAuthenticated() is
\* true and getCurrentUser() returns the claims of that access token.
C10_LoginStoresAnyRefreshToken ==
    \A t \in Tasks :
        (/\ Done(t)
         /\ tasks[t].op = "login"
         /\ tasks[t].resp.status = 200
         /\ tasks[t].fault = "none"
         /\ WellFormedAccess(tasks[t].resp.access)
         /\ tasks[t].resp.access[2].exp > now
         /\ tasks[t].resp.refresh # NoToken) =>
            /\ tasks[t].res.ok
            /\ store = [access |-> tasks[t].resp.access, refresh |-> tasks[t].resp.refresh]
            /\ IsAuthenticated(store, now)
            /\ GetCurrentUser(store, now).ok
            /\ GetCurrentUser(store, now).payload = DecodeJWTPayload(tasks[t].resp.access)

\* local-part@domain.tld: one "@" after a non-empty local part, a "." inside
\* the domain with text on both sides, no whitespace anywhere
WellFormedEmail(email) ==
    \E i \in 1..Len(email), j \in 1..Len(email) :
        /\ email[i] = "@" /\ email[j] = "."
        /\ 1 < i /\ i + 1 < j /\ j < Len(email)
        /\ \A k \in 1..Len(email) : ~IsSpace(email[k]) /\ (email[k] = "@" => k = i)

\* C11: login with an empty email or password fails with
\* missing_credentials, login with an email that is not
\* local-part@domain.tld fails with invalid_email_format, and in both cases
\* no request is made to POST /auth/login.
C11_LocalValidation ==
    \A t \in Tasks :
        /\ (Done(t) /\ tasks[t].op = "login"
              /\ (tasks[t].cred.email = << >> \/ tasks[t].cred.password = "")) =>
               /\ tasks[t].res = Left("missing_credentials")
               /\ tasks[t].resp = NoResp /\ tasks[t].sent = << >>
        /\ (Done(t) /\ tasks[t].op = "login"
              /\ tasks[t].cred.email # << >> /\ tasks[t].cred.password # ""
              /\ ~WellFormedEmail(tasks[t].cred.email)) =>
               /\ tasks[t].res = Left("invalid_email_format")
               /\ tasks[t].resp = NoResp /\ tasks[t].sent = << >>
        /\ tasks[t].pc = "login_net" =>
               /\ tasks[t].cred.email # << >> /\ tasks[t].cred.password # ""
               /\ WellFormedEmail(tasks[t].cred.email)

\* C11 witness: login with "u@e" (no top-level domain) has returned
\* invalid_email_format.
C11_Witness ==
    \E t \in Tasks :
        /\ Done(t) /\ tasks[t].op = "login"
        /\ tasks[t].cred = [email |-> NoTldEmail, password |-> "secret1"]
        /\ tasks[t].res = Left("invalid_email_format")

\* C12: login trims and lower-cases the email before validating it and
\* before transmitting it: an email that is well-formed once trimmed is not
\* rejected by the format check, and the email sent to POST /auth/login is
\* the trimmed, lower-cased one.
C12_TrimmedBeforeValidation ==
    \A t \in Tasks :
        /\ (Done(t) /\ tasks[t].op = "login" /\ tasks[t].cred.password # ""
              /\ WellFormedEmail(Trim(tasks[t].cred.email))) =>
               tasks[t].res.code # "invalid_email_format"
        /\ tasks[t].pc = "login_net" =>
               tasks[t].sent = ToLowerCase(Trim(tasks[t].cred.email))

\* C16: a getValidToken() call made while the stored access token is valid
\* with a remaining lifetime inside the renewal buffer (0 < r <= 300 s), and
\* a valid refresh token is stored, awaits a refresh (it starts one or joins
\* the one in flight).
C16_RenewsInsideBuffer ==
    [][\A t \in Tasks :
           (/\ Calls(t, "getValidToken")
            /\ StructurallyValid(store.access)
            /\ 0 < Lifetime(store.access, now)
            /\ Lifetime(store.access, now) <= 300
            /\ GetRefreshToken(store).ok) => tasks'[t].pc = "refresh_wait"]_vars

\* the URL ends in the path of one of the four auth endpoints
TargetsAuthEndpoint(url) == url # << >> /\ url[Len(url)] \in AuthRoutes

\* C17: a request that does not target an auth endpoint goes through
\* getValidToken(): when that succeeds the request is sent with the token
\* as its bearer credential, when it fails the request is sent all the same,
\* without a credential.  A request to an auth endpoint is sent without
\* getValidToken() being called and without a credential.
C17_RequestHook ==
    [][\A t \in Tasks :
           Calls(t, "request") =>
               IF TargetsAuthEndpoint(tasks'[t].url)
               THEN /\ tasks'[t].pc = "sent" /\ tasks'[t].hdr = NoToken
                    /\ store' = store /\ lastTokenCheck' = lastTokenCheck
               ELSE /\ GetValidTokenSync(World, now).kind = "right" =>
                         /\ tasks'[t].pc = "sent"
                         /\ tasks'[t].hdr = GetValidTokenSync(World, now).token
                         /\ lastTokenCheck' = GetValidTokenSync(World, now).w.lastTokenCheck
                    /\ GetValidTokenSync(World, now).kind = "left" =>
                         /\ tasks'[t].pc = "sent" /\ tasks'[t].hdr = NoToken
                         /\ store' = GetValidTokenSync(World, now).w.store]_vars

\* C18: the credential attached to an outbound application request (first
\* transmission, queued replay or retry) is an access token, never a
\* refresh token; what POST /auth/refresh carries in its body is a refresh
\* token.
C18_OnlyAccessTokenAttached ==
    /\ \A t \in Tasks :
           tasks[t].hdr # NoToken =>
               /\ Len(tasks[t].hdr) = 3 /\ tasks[t].hdr[2].shape = "claims"
               /\ tasks[t].hdr \notin {RefreshJwt(1), RefreshJwt(2), OpaqueTok}
    /\ \A id \in OpIds :
           ops[id].active => ops[id].rt \in {RefreshJwt(1), RefreshJwt(2)}

\* C18 witness: a request that waited in the queue has been replayed with a
\* credential, while the request that refreshed is retried with one.
C18_Witness ==
    \E t1, t2 \in Tasks :
        /\ tasks[t1].pc = "sent" /\ tasks[t1].tx = 2 /\ ~tasks[t1].retry
        /\ tasks[t1].hdr # NoToken
        /\ tasks[t2].pc = "sent" /\ tasks[t2].tx = 2 /\ tasks[t2].retry
        /\ tasks[t2].hdr # NoToken

\* the failure values of the token store that AuthService hands on
StoreFailures ==
    {"invalid_access_token_format", "invalid_refresh_token_format", "token_storage_error",
     "refresh_token_not_found", "refresh_token_invalid"}

\* res is a value op resolves to: a Right, or a Left with one of the error
\* slugs of the operation (a rejected request is none of them)
ExplicitOutcome(op, res) ==
    /\ op = "login" =>
           \/ res.ok /\ res.code = "tokens"
           \/ ~res.ok /\ res.code \in
                  {"missing_credentials", "invalid_email_format", "invalid_auth_response",
                   "invalid_credentials", "too_many_attempts", "login_error"}
                      \cup StoreFailures
    /\ op = "logout" => res.ok \/ res.code = "logout_error"
    /\ op = "refreshToken" =>
           \/ res.ok /\ res.code = "tokens"
           \/ ~res.ok /\ res.code \in
                  {"refresh_expired", "refresh_error", "refresh_failed"} \cup StoreFailures
    /\ op = "getValidToken" =>
           \/ res.ok /\ res.code = "token" /\ res.access # NoToken
           \/ res = Left("authentication_required")

\* C19: login, logout, refreshToken and getValidToken never throw or
\* reject: whatever the endpoint answers and whatever storage holds, the
\* call ends with a Right or with a Left carrying one of its error slugs;
\* getValidToken called on a token that has merely expired ends with
\* authentication_required.
C19_NeverRejects ==
    [][\A t \in Tasks :
           (tasks[t].pc # "done" /\ tasks'[t].pc = "done") =>
               /\ ExplicitOutcome(tasks'[t].op, tasks'[t].res)
               /\ (Calls(t, "getValidToken") /\ ExpiredAccess(store, now)) =>
                      tasks'[t].res = Left("authentication_required")]_vars

\* C19 witness: login has returned a failure value after a network error
\* (no response at all).
C19_Witness ==
    \E t \in Tasks :
        /\ Done(t) /\ tasks[t].op = "login"
        /\ tasks[t].resp.status = 0 /\ tasks[t].res = Left("login_error")

\* the token carries an exp claim that is not in the past at time t
Unexpired(token, t) == ExpOf(token) > 0 /\ ExpOf(token) >= t

\* C20: isAuthenticated() returns true exactly when a structurally valid,
\* unexpired access token is stored, and the call issues no refresh: no
\* network call starts, the refresh lock and every other caller are left
\* as they were (a request's rank within its turn of the event loop, which
\* lapses with the turn, is not compared).
C20_IsAuthenticatedPure ==
    [][\A t \in Tasks :
           Calls(t, "isAuthenticated") =>
               /\ tasks'[t].pc = "done"
               /\ tasks'[t].res =
                      RightBool(StructurallyValid(store.access) /\ Unexpired(store.access, now))
               /\ refreshPromise' = refreshPromise /\ ops' = ops
               /\ isRefreshing' = isRefreshing /\ failedQueue' = failedQueue
               /\ \A u \in Tasks \ {t} :
                      [tasks'[u] EXCEPT !.ord = 0] = [tasks[u] EXCEPT !.ord = 0]]_vars

\* C20 witness: isAuthenticated() has answered true while a refresh call
\* is outstanding.
C20_Witness ==
    \E t \in Tasks :
        /\ Done(t) /\ tasks[t].op = "isAuthenticated"
        /\ tasks[t].res = RightBool(TRUE)
        /\ refreshPromise # Null /\ ActiveOps(ops) # {}

\* C21: after a successful refresh the stored access token is the one the
\* refresh endpoint returned, and the stored refresh token is the one the
\* endpoint returned when its answer carries one, otherwise the refresh
\* token the call was made with.
C21_RefreshRotation ==
    [][\A id \in OpIds :
           (/\ ops[id].active
            /\ \E t \in Tasks :
                   /\ tasks[t].frame = "refreshToken" /\ tasks[t].pc = "refresh_wait"
                   /\ tasks'[t].pc = "done" /\ tasks'[t].res.ok) =>
               \A resp \in RefreshBodies(now), fault \in StorageFaults :
                   RefreshResponse(id, resp, fault) =>
                       store' = [access |-> resp.access,
                                 refresh |-> IF resp.refresh # NoToken THEN resp.refresh
                                             ELSE ops[id].rt]]_vars

\* C21 witness: refreshToken() has succeeded on an answer without a refresh
\* token, and the refresh token it was called with is still stored beside
\* the new access token.
C21_Witness ==
    \E t \in Tasks :
        /\ Done(t) /\ tasks[t].op = "refreshToken" /\ tasks[t].res.ok
        /\ store.refresh = RefreshJwt(1)
        /\ store.access = tasks[t].res.access
        /\ store.access # StoredSession.access

\* C28: login maps the answer of POST /auth/login to one failure kind: 401
\* to invalid_credentials, 429 to too_many_attempts, a 2xx body lacking the
\* access or the refresh token to invalid_auth_response, any other error to
\* login_error; and only a login that succeeds writes the token pair and
\* sets the renewal-check timestamp, to now.
C28_LoginOutcomes ==
    [][\A t \in Tasks :
           (tasks[t].op = "login" /\ tasks[t].pc # "done" /\ tasks'[t].pc = "done") =>
               /\ tasks'[t].resp.status = 401 => tasks'[t].res = Left("invalid_credentials")
               /\ tasks'[t].resp.status = 429 => tasks'[t].res = Left("too_many_attempts")
               /\ tasks'[t].resp.status \in {500, 0} => tasks'[t].res = Left("login_error")
               /\ (/\ tasks'[t].resp.status = 200
                   /\ (tasks'[t].resp.access = NoToken \/ tasks'[t].resp.refresh = NoToken)) =>
                      tasks'[t].res = Left("invalid_auth_response")
               /\ IF tasks'[t].res.ok
                  THEN /\ store' = [access |-> tasks'[t].resp.access,
                                    refresh |-> tasks'[t].resp.refresh]
                       /\ lastTokenCheck' = DateNow(now)
                  ELSE store' = store /\ lastTokenCheck' = lastTokenCheck]_vars

\* C36: a login that fails (credentials missing, email invalid, 401, 429,
\* network error, invalid answer, or a returned pair that the token store
\* rejects) leaves the stored pair, the refresh lock and the renewal-check
\* timestamp as they were: neither the step that calls login() nor the step
\* in which it returns the failure changes them.
C36_FailedLoginChangesNothing ==
    [][\A t \in Tasks :
           /\ Calls(t, "login") =>
                  /\ store' = store /\ refreshPromise' = refreshPromise
                  /\ lastTokenCheck' = lastTokenCheck
           /\ (/\ tasks[t].op = "login" /\ tasks[t].pc # "done"
               /\ tasks'[t].pc = "done" /\ ~tasks'[t].res.ok) =>
                  /\ store' = store /\ refreshPromise' = refreshPromise
                  /\ lastTokenCheck' = lastTokenCheck]_vars

\* C36 without the storage fault between the two writes of setTokens()
FailedLoginWithoutPartialWrite ==
    [][\A t \in Tasks :
           (/\ tasks[t].op = "login" /\ tasks[t].pc # "done"
            /\ tasks'[t].pc = "done" /\ ~tasks'[t].res.ok
            /\ tasks'[t].fault # "refresh") =>
               /\ store' = store /\ refreshPromise' = refreshPromise
               /\ lastTokenCheck' = lastTokenCheck]_vars

\* C29: logout() calls POST /auth/logout exactly when a structurally valid
\* refresh token is stored, and leaves the store, the refresh lock and the
\* renewal-check timestamp alone until that call has answered or failed;
\* its last step clears the token store, empties the refresh lock, resets
\* the timestamp and returns Right(true), whatever the server answered.
C29_LogoutCleansLast ==
    [][\A t \in Tasks :
           /\ (Calls(t, "logout") /\ StructurallyValid(store.refresh)) =>
                  /\ tasks'[t].pc = "logout_net"
                  /\ store' = store /\ refreshPromise' = refreshPromise
                  /\ lastTokenCheck' = lastTokenCheck
           /\ (Calls(t, "logout") /\ ~StructurallyValid(store.refresh)) =>
                  tasks'[t].pc = "done"
           /\ (tasks'[t].op = "logout" /\ tasks[t].pc # "done" /\ tasks'[t].pc = "done") =>
                  /\ store' = EmptyStore /\ refreshPromise' = Null
                  /\ lastTokenCheck' = 0
                  /\ tasks'[t].res = RightBool(TRUE)]_vars

\* C29 witness: logout() has returned Right(true) after POST /auth/logout
\* failed, with the store, the lock and the timestamp reset.
C29_Witness ==
    \E t \in Tasks :
        /\ Done(t) /\ tasks[t].op = "logout" /\ tasks[t].resp.status = 500
        /\ tasks[t].res = RightBool(TRUE)
        /\ store = EmptyStore /\ refreshPromise = Null /\ lastTokenCheck = 0

(***************************************************************************)
(* Properties of the request gatekeeper (checked under SpecGate).          *)
(***************************************************************************)
\* the return path the login page is given: the page's path and query
ReturnPath == <<"/login", "?", "redirect", "=">>
                  \o EncodeURIComponent(AppPage.pathname \o AppPage.search)

\* C22: on a terminal authentication failure (the refresh failed, or a
\* request that was already retried got 401) the gatekeeper navigates to the
\* login page with the original path and query as return path, and once it
\* has done so it issues no second redirect.
C22_RedirectOnce ==
    [][redirects' # redirects =>
           /\ redirects = 0
           /\ location.href = << >>
           /\ location'.href = ReturnPath]_vars

\* C30: a 401 from an auth endpoint, and every error other than 401 from
\* any endpoint, reaches the caller unchanged: the gatekeeper starts no
\* refresh, sends the request no second time, does not log out and does not
\* redirect.
C30_PassedUnchanged ==
    [][\A t \in Tasks :
           (tasks[t].pc = "sent" /\ tasks'[t].pc = "done") =>
               \A status \in {401, 500} :
                   (/\ RequestResponse(t, status)
                    /\ status = 401 => TargetsAuthEndpoint(tasks[t].url)) =>
                       /\ tasks'[t].res = Left("request_error")
                       /\ tasks'[t].resp.status = status
                       /\ tasks'[t].tx = tasks[t].tx
                       /\ \A u \in Tasks \ {t} : tasks'[u] = [tasks[u] EXCEPT !.ord = 0]
                       /\ UNCHANGED <<store, refreshPromise, lastTokenCheck, ops,
                                      isRefreshing, failedQueue, sessionClosed,
                                      location, redirects>>]_vars

\* a 401 from /auth/register has reached its caller; the gatekeeper is
\* installed, the session is still stored
C30_Witness ==
    \E t \in Tasks :
        /\ Done(t)
        /\ tasks[t].hooked
        /\ TargetsAuthEndpoint(tasks[t].url)
        /\ tasks[t].resp.status = 401
        /\ tasks[t].res = Left("request_error")
        /\ store = StoredSession
        /\ redirects = 0

\* request t, answered 401 on a non-auth endpoint while the gatekeeper's
\* refresh is in flight, joins the queue and is not sent
Enqueued(t) ==
    /\ tasks'[t].pc = "queued"
    /\ failedQueue' = Append(failedQueue, t)
    /\ tasks'[t].tx = tasks[t].tx
    /\ tasks'[t].ord = 0

\* this step is the completion of the gatekeeper's refresh: the request
\* that started it resumes
Completes(t0) ==
    /\ tasks[t0].frame = "reqRefresh"
    /\ tasks[t0].pc = "refresh_wait"
    /\ tasks'[t0].pc # "refresh_wait"

\* what the completion of the refresh does to the queue q: on success (the
\* refresher is sent again) every queued request is sent with the new
\* access token, in the order of q; on failure every queued request is
\* rejected with the error of the refresh and none is sent
QueueSettled(t0, q, resp) ==
    /\ failedQueue' = << >>
    /\ resp.status = 200 =>
           /\ tasks'[t0].pc = "sent"
           /\ \A k \in 1..Len(q) :
                  /\ tasks'[q[k]].pc = "sent"
                  /\ tasks'[q[k]].hdr = resp.access
                  /\ tasks'[q[k]].ord > 0
                  /\ \A j \in 1..(k - 1) : tasks'[q[j]].ord < tasks'[q[k]].ord
    /\ resp.status # 200 =>
           /\ tasks'[t0].pc = "done" /\ ~tasks'[t0].res.ok
           /\ \A k \in 1..Len(q) :
                  /\ tasks'[q[k]].pc = "done"
                  /\ tasks'[q[k]].res = tasks'[t0].res
                  /\ tasks'[q[k]].ord = 0
                  /\ tasks'[q[k]].tx = tasks[q[k]].tx

\* the queued requests wait for the completion of the refresh, which
\* settles them all
QueueWaits ==
    /\ \A t \in Tasks :
           (tasks[t].pc = "queued" /\ tasks'[t].pc # "queued") =>
               \E t0 \in Tasks : Completes(t0)
    /\ \A t0 \in Tasks :
           (Completes(t0) /\ isRefreshing) =>
               \A id \in OpIds, resp \in GateRefreshResps :
                   RefreshResponse(id, resp, "none") =>
                       QueueSettled(t0, failedQueue, resp)

RefreshInFlight ==
    /\ isRefreshing
    /\ \E id \in OpIds, t0 \in Tasks :
           /\ ops[id].active
           /\ \E k \in 1..Len(ops[id].waiters) : ops[id].waiters[k] = t0
           /\ tasks[t0].frame = "reqRefresh" /\ tasks[t0].pc = "refresh_wait"

\* C26: every request placed in the gatekeeper's pending queue is eventually
\* resolved or rejected: as long as it is pending it is in the queue of a
\* refresh in flight, whose completion empties the queue, so that no
\* request stays pending forever.
C26_QueueDrained ==
    \A t \in Tasks :
        tasks[t].pc = "queued" =>
            /\ \E k \in 1..Len(failedQueue) : failedQueue[k] = t
            /\ RefreshInFlight

\* a request that waits outside the queue waits forever
Stranded(t) ==
    /\ tasks[t].pc = "queued"
    /\ \A k \in 1..Len(failedQueue) : failedQueue[k] # t

StrandedForever == [][\A t \in Tasks : Stranded(t) => Stranded(t)']_vars

\* the step is a call of destroy(): no request moves and the gatekeeper ends
\* uninitialized
DestroyStep == tasks' = tasks /\ ~isInitialized'

\* C39: after any sequence of initialize() and destroy() calls at most one
\* pair of interceptors is registered, one is registered exactly when
\* isInitialized is true, initialize() on an initialized gatekeeper registers
\* nothing, and destroy() leaves the refreshing flag false and the pending
\* queue empty.
C39_HooksInstalledOnce ==
    /\ [](interceptors <= 1 /\ (interceptors = 1 <=> isInitialized))
    /\ [][(isInitialized /\ isInitialized' /\ tasks' = tasks) =>
              interceptors' = interceptors]_vars
    /\ [][DestroyStep => (~isRefreshing' /\ failedQueue' = << >> /\ interceptors' = 0)]_vars

\* C39 witness: initialize() has run again after a destroy() that dropped a
\* queued request
C39_Witness ==
    /\ isInitialized /\ interceptors = 1
    /\ \E t \in Tasks : Stranded(t)

(***************************************************************************)
(* Properties of the session state adapters (checked under SpecView).      *)
(***************************************************************************)
\* a login through the adapter operation op awaits the server
LoginPending(op) ==
    \E t \in Tasks : tasks[t].op = op /\ tasks[t].pc = "login_net"

\* loading is true only before the start-up check has completed or while a
\* login is pending, and false when a login has just resolved
LoadingOnlyWhilePending(state, checked, op) ==
    /\ state.isLoading => (~checked \/ LoginPending(op))
    /\ \A t \in Tasks : (Done(t) /\ tasks[t].op = op) => ~state.isLoading

\* C23: Session State, which starts with loading=true, has loading true
\* only while a start-up check or a login is pending: once the start-up
\* validation of the stored pair has completed (token stored or not) and
\* after every login call has resolved loading is false, in the redux slice
\* and in the context provider.
C23_LoadingWhilePending ==
    /\ LoadingOnlyWhilePending(view.slice, view.sliceChecked, "slice.login")
    /\ LoadingOnlyWhilePending(view.ctx, view.ctxChecked, "ctx.login")

\* the redux slice alone
SliceLoadingWhilePending ==
    LoadingOnlyWhilePending(view.slice, view.sliceChecked, "slice.login")

\* C24: every mutating call of the session view adapter (login, logout,
\* checkAuth) resolves only after the resulting transition has been applied
\* to Session State: the caller that reads the state when the call resolves
\* sees the outcome of the call.
C24_ResolvesAfterTransition ==
    \A t \in Tasks :
        (Done(t) /\ tasks[t].op \in {"slice.login", "slice.logout", "slice.checkAuth"}) =>
            view.seen = view.slice

\* login and logout alone
LoginLogoutResolveAfterTransition ==
    \A t \in Tasks :
        (Done(t) /\ tasks[t].op \in {"slice.login", "slice.logout"}) =>
            view.seen = view.slice

\* C38: when a login made through the redux adapter resolves, the slice's
\* isAuthenticated equals what the coordinator's isAuthenticated() returns
\* at that moment.
C38_FlagMatchesCoordinator ==
    \A t \in Tasks :
        (Done(t) /\ tasks[t].op = "slice.login") =>
            (view.slice.isAuthenticated <=> IsAuthenticated(store, now))

\* C38 for the logins that were answered with a pair whose access token
\* carries every required claim, or that failed over an empty store
FlagMatchesOnWellFormedLogin ==
    \A t \in Tasks :
        (/\ Done(t) /\ tasks[t].op = "slice.login"
         /\ IF tasks[t].res.ok \/ tasks[t].resp.status = 200
            THEN WellFormedAccess(tasks[t].resp.access)
            ELSE store = EmptyStore) =>
            (view.slice.isAuthenticated <=> IsAuthenticated(store, now))

\* a login through the redux adapter was refused with 401 over a stored
\* session: the slice is unauthenticated, the coordinator is not
LoginRefusedOverSession ==
    \E t \in Tasks :
        /\ Done(t) /\ tasks[t].op = "slice.login" /\ tasks[t].resp.status = 401
        /\ ~view.slice.isAuthenticated /\ IsAuthenticated(store, now)

\* C31: when a refresh has failed and the tokens have been cleared, the
\* session state of the redux adapter is unauthenticated with no user.
C31_StateFollowsRefreshFailure ==
    \A t \in Tasks :
        (Done(t) /\ tasks[t].op = "refreshToken" /\ ~tasks[t].res.ok /\ store = EmptyStore) =>
            (~view.slice.isAuthenticated /\ view.slice.user = NullPayload)

\* the slice changes only in the steps of the adapter's own operations
SliceChangesOnlyByAdapter ==
    [][view'.slice # view.slice =>
           \E t \in Tasks :
               /\ tasks'[t].op \in {"slice.login", "slice.logout", "slice.checkAuth"}
               /\ tasks'[t] # tasks[t]]_vars

(***************************************************************************)
(* Properties of getValidToken() on the fine clock (checked under          *)
(* SpecCache).                                                             *)
(***************************************************************************)
\* C35: a token that getValidToken() returns without awaiting a refresh is
\* the access token stored at that moment, and that token is structurally
\* valid and unexpired at the time of the call; this holds as well when the
\* previous full check was less than 30 s ago, so a token that expired since
\* that check is not returned.
C35_ServedTokenIsCurrent ==
    [][\A t \in Tasks :
           (Calls(t, "getValidToken") /\ tasks'[t].pc = "done" /\ tasks'[t].res.ok) =>
               /\ tasks'[t].res.access = store'.access
               /\ store' = store
               /\ StructurallyValid(store.access)
               /\ Unexpired(store.access, now)]_vars

\* C35 witness: getValidToken() has returned a token less than 30 s after
\* an earlier full check
C35_Witness ==
    \E t \in Tasks :
        /\ Done(t) /\ tasks[t].op = "getValidToken" /\ tasks[t].res.ok
        /\ lastTokenCheck > 0
        /\ lastTokenCheck < DateNow(now)
        /\ DateNow(now) - lastTokenCheck < TOKEN_CHECK_INTERVAL

(***************************************************************************)
(* Properties of the redux slice (checked under SpecSlice).                *)
(***************************************************************************)
\* C37: after any sequence of login, logout, checkAuth, clearError and
\* updateTokenTime actions (pending, fulfilled or rejected), the slice's
\* isAuthenticated is true exactly when its user is not null.
C37_AuthenticatedIffUser ==
    view.slice.isAuthenticated <=> view.slice.user # NullPayload

\* C37 witness: the slice is authenticated with a user, after a rejected
\* action left its error and an updateTokenTime set the remaining time
C37_Witness ==
    /\ view.slice.isAuthenticated
    /\ view.slice.user \in SliceUsers
    /\ view.slice.error # ""
    /\ view.slice.tokenTimeRemaining > 0

(***************************************************************************)
(* Properties of the users repository (checked under SpecUsers).           *)
(***************************************************************************)
\* C40: every operation of UsersRepository first asks getValidToken(): when
\* no valid access token is stored it returns the failure of getValidToken()
\* as a Left and makes no data source call, otherwise it makes one data
\* source call with the token; and whatever the data source does, the
\* operation returns a Right or a Left and makes no further call.
C40_RepositoryReturnsEither ==
    [][\A t \in Tasks :
           /\ (tasks[t].pc = "idle" /\ tasks'[t].op \in UsersOperations) =>
                  IF StructurallyValid(store.access) /\ Unexpired(store.access, now)
                  THEN /\ tasks'[t].pc = "ds_net" /\ tasks'[t].tx = 1
                       /\ tasks'[t].hdr = store.access
                  ELSE /\ tasks'[t].pc = "done" /\ tasks'[t].tx = 0
                       /\ tasks'[t].res = Left("authentication_required")
           /\ (tasks[t].pc = "ds_net" /\ tasks'[t].pc # "ds_net") =>
                  /\ tasks'[t].pc = "done" /\ tasks'[t].tx = 1
                  /\ tasks'[t].res.ok <=> tasks'[t].resp.status = 200
                  /\ ~tasks'[t].res.ok => tasks'[t].res.code \in {"001", "000"}]_vars

\* C40 witness: an operation has returned the failure of getValidToken()
\* without a data source call, while an operation that started before the
\* token expired awaits the data source
C40_Witness ==
    \E t, u \in Tasks :
        /\ Done(t) /\ tasks[t].op \in UsersOperations /\ tasks[t].tx = 0
        /\ tasks[t].res = Left("authentication_required")
        /\ tasks[u].pc = "ds_net"

(***************************************************************************)
(* The token store on its own: TokenService called directly, on whatever   *)
(* localStorage holds.  `call' records the last call: its arguments, the   *)
(* store and the clock it ran on, and what it returned.                    *)
(***************************************************************************)
\* expiry instants around the clock readings of the model
Instants == { k * Step : k \in 1..(MaxTicks + 3) }

\* expiry instants one second inside and outside the renewal buffer, as the
\* first clock reading sees them
BufferEdges ==
    {StartTime + 1, StartTime + RefreshBufferSeconds - 1, StartTime + RefreshBufferSeconds + 1}

StoreAccessTokens ==
    {NoToken, JunkTok, TwoPartTok(Step, EndTime + Step)}
        \cup { AccessTok(Step, e) : e \in Instants \cup BufferEdges }
        \cup { LackingTok(sh, Step, EndTime + Step) : sh \in LackingShapes }

StoreRefreshTokens == {NoToken, RefreshJwt(1), OpaqueTok}

\* the tokens getTokenPayload and getTokenTimeRemaining are called with; the
\* last one has four segments
DecodeInputs ==
    StoreAccessTokens \cup {RefreshJwt(1), OpaqueTok, AccessTok(Step, EndTime) \o <<SigSeg>>}

\* the access tokens setTokens is called with
SetTokensInputs ==
    {NoToken, JunkTok, AccessTok(Step, Step), AccessTok(Step, StartTime),
     AccessTok(Step, EndTime + Step)}
        \cup { LackingTok(sh, Step, EndTime + Step) : sh \in LackingShapes }

InitStore ==
    /\ now = StartTime
    /\ store \in [access : StoreAccessTokens, refresh : StoreRefreshTokens]
    /\ refreshPromise = Null
    /\ lastTokenCheck = 0
    /\ ops = [id \in OpIds |-> NoOp]
    /\ tasks = [t \in Tasks |-> IdleTask]
    /\ isRefreshing = FALSE
    /\ failedQueue = << >>
    /\ raced = FALSE
    /\ sessionClosed = FALSE
    /\ location = AppPage
    /\ redirects = 0
    /\ isInitialized = TRUE
    /\ interceptors = 1
    /\ view = NoView
    /\ call = NoCall

\* a call of TokenService made with (access, refresh) returns r
Returns(op, access, refresh, r) ==
    /\ store' = r.store
    /\ call' = [NoCall EXCEPT !.op = op, !.pre = store, !.at = now, !.access = access,
                              !.refresh = refresh, !.ok = r.ok, !.token = r.token,
                              !.err = r.err]

\* the value a call returned, for one that returns no token
Returned(ok, err, s) == [ok |-> ok, token |-> NoToken, err |-> err, store |-> s]
ReturnedEither(r) == Returned(r.ok, r.err, r.store)
ReturnedBool(r) == Returned(r.value, "", r.store)

StoreTick ==
    /\ now < EndTime
    /\ now' = now + Step
    /\ UNCHANGED <<store, refreshPromise, lastTokenCheck, ops, tasks, isRefreshing,
                   failedQueue, raced, sessionClosed, location, redirects,
                   isInitialized, interceptors, view, call>>

StoreGetAccessToken ==
    /\ Returns("getAccessToken", NoToken, NoToken, GetAccessToken(store, now))
    /\ UNCHANGED <<now, refreshPromise, lastTokenCheck, ops, tasks, isRefreshing,
                   failedQueue, raced, sessionClosed, location, redirects,
                   isInitialized, interceptors, view>>

StoreGetRefreshToken ==
    /\ Returns("getRefreshToken", NoToken, NoToken, GetRefreshToken(store))
    /\ UNCHANGED <<now, refreshPromise, lastTokenCheck, ops, tasks, isRefreshing,
                   failedQueue, raced, sessionClosed, location, redirects,
                   isInitialized, interceptors, view>>

StoreSetTokens(accessToken, refreshToken, fault) ==
    /\ Returns("setTokens", accessToken, refreshToken,
               ReturnedEither(SetTokens(store, accessToken, refreshToken, now, fault)))
    /\ UNCHANGED <<now, refreshPromise, lastTokenCheck, ops, tasks, isRefreshing,
                   failedQueue, raced, sessionClosed, location, redirects,
                   isInitialized, interceptors, view>>

StoreShouldRefreshToken ==
    /\ Returns("shouldRefreshToken", NoToken, NoToken,
               ReturnedBool(ShouldRefreshToken(store, now)))
    /\ UNCHANGED <<now, refreshPromise, lastTokenCheck, ops, tasks, isRefreshing,
                   failedQueue, raced, sessionClosed, location, redirects,
                   isInitialized, interceptors, view>>

StoreClearTokens ==
    /\ Returns("clearTokens", NoToken, NoToken, Returned(TRUE, "", ClearTokens(store)))
    /\ UNCHANGED <<now, refreshPromise, lastTokenCheck, ops, tasks, isRefreshing,
                   failedQueue, raced, sessionClosed, location, redirects,
                   isInitialized, interceptors, view>>

\* getTokenPayload(token): storage is not read
StoreGetTokenPayload(token) ==
    /\ call' = [NoCall EXCEPT !.op = "getTokenPayload", !.pre = store, !.at = now,
                              !.access = token, !.ok = GetTokenPayload(token).ok,
                              !.err = GetTokenPayload(token).err,
                              !.payload = GetTokenPayload(token).payload]
    /\ UNCHANGED <<now, store, refreshPromise, lastTokenCheck, ops, tasks, isRefreshing,
                   failedQueue, raced, sessionClosed, location, redirects,
                   isInitialized, interceptors, view>>

\* getTokenTimeRemaining(token)
StoreGetTokenTimeRemaining(token) ==
    /\ call' = [NoCall EXCEPT !.op = "getTokenTimeRemaining", !.pre = store, !.at = now,
                              !.access = token, !.ok = TRUE,
                              !.value = GetTokenTimeRemaining(token, now)]
    /\ UNCHANGED <<now, store, refreshPromise, lastTokenCheck, ops, tasks, isRefreshing,
                   failedQueue, raced, sessionClosed, location, redirects,
                   isInitialized, interceptors, view>>

\* AuthService.isAuthenticated() and getCurrentUser(), which read the store
\* through getAccessToken()
StoreIsAuthenticated ==
    /\ Returns("isAuthenticated", NoToken, NoToken,
               Returned(IsAuthenticated(store, now), "", GetAccessToken(store, now).store))
    /\ UNCHANGED <<now, refreshPromise, lastTokenCheck, ops, tasks, isRefreshing,
                   failedQueue, raced, sessionClosed, location, redirects,
                   isInitialized, interceptors, view>>

StoreGetCurrentUser ==
    /\ Returns("getCurrentUser", NoToken, NoToken,
               Returned(GetCurrentUser(store, now).ok, GetCurrentUser(store, now).err,
                        GetAccessToken(store, now).store))
    /\ UNCHANGED <<now, refreshPromise, lastTokenCheck, ops, tasks, isRefreshing,
                   failedQueue, raced, sessionClosed, location, redirects,
                   isInitialized, interceptors, view>>

NextStore ==
    \/ StoreTick
    \/ StoreIsAuthenticated
    \/ StoreGetCurrentUser
    \/ \E token \in DecodeInputs : StoreGetTokenPayload(token)
    \/ \E token \in DecodeInputs : StoreGetTokenTimeRemaining(token)
    \/ StoreGetAccessToken
    \/ StoreGetRefreshToken
    \/ \E a \in SetTokensInputs, r \in StoreRefreshTokens, fault \in StorageFaults :
           StoreSetTokens(a, r, fault)
    \/ StoreShouldRefreshToken
    \/ StoreClearTokens

SpecStore == InitStore /\ [][NextStore]_vars

(***************************************************************************)
(* Properties of the token store (checked under SpecStore).                *)
(***************************************************************************)
\* a stored access token that getAccessToken() refuses as invalid or expired
RefusedAccess(s, t) ==
    s.access # NoToken /\ ~(StructurallyValid(s.access) /\ Unexpired(s.access, t))

\* C34: when getAccessToken() fails with access_token_invalid or
\* access_token_expired, or getRefreshToken() fails with
\* refresh_token_invalid, both tokens are absent from storage afterwards;
\* when either fails because its token is missing, storage is unchanged.
\* isAuthenticated(), getCurrentUser() and shouldRefreshToken() purge in the
\* same cases as getAccessToken().
C34_PurgeOnInvalid ==
    /\ call.op = "getAccessToken" =>
           /\ RefusedAccess(call.pre, call.at) =>
                  /\ ~call.ok
                  /\ call.err \in {"access_token_invalid", "access_token_expired"}
           /\ call.err \in {"access_token_invalid", "access_token_expired"} =>
                  store = EmptyStore
           /\ call.err = "access_token_not_found" =>
                  (call.pre.access = NoToken /\ store = call.pre)
    /\ call.op = "getRefreshToken" =>
           /\ (call.pre.refresh # NoToken /\ ~StructurallyValid(call.pre.refresh)) =>
                  (~call.ok /\ call.err = "refresh_token_invalid")
           /\ call.err = "refresh_token_invalid" => store = EmptyStore
           /\ call.err = "refresh_token_not_found" =>
                  (call.pre.refresh = NoToken /\ store = call.pre)
    /\ call.op \in {"isAuthenticated", "getCurrentUser", "shouldRefreshToken"} =>
           /\ RefusedAccess(call.pre, call.at) => (~call.ok /\ store = EmptyStore)
           /\ ~RefusedAccess(call.pre, call.at) => store = call.pre

\* C34 witness: isAuthenticated() has found an expired access token beside a
\* refresh token, and both are gone
C34_Witness ==
    /\ call.op = "isAuthenticated"
    /\ WellFormedAccess(call.pre.access) /\ ~Unexpired(call.pre.access, call.at)
    /\ call.pre.refresh = RefreshJwt(1)
    /\ ~call.ok
    /\ store = EmptyStore

\* C32: decodeClaims(token) succeeds iff the token has exactly three
\* segments, its middle segment decodes to a JSON claims object and that
\* object carries subject, email, issued-at and expiry; it fails with
\* token_decode_failed when a decoding step fails and with
\* token_missing_fields when a required claim is absent.
C32_DecodeClaims ==
    call.op = "getTokenPayload" =>
        /\ call.ok <=> WellFormedAccess(call.access)
        /\ call.ok =>
               /\ call.payload.iat = call.access[2].iat
               /\ call.payload.exp = call.access[2].exp
        /\ ~StructurallyValid(call.access) => call.err = "token_decode_failed"
        /\ (StructurallyValid(call.access) /\ ~WellFormedAccess(call.access)) =>
               call.err = "token_missing_fields"
        /\ store = call.pre

\* C32 witness: a token with three segments whose claims lack the email has
\* been refused with token_missing_fields
C32_Witness ==
    /\ call.op = "getTokenPayload"
    /\ Len(call.access) = 3 /\ call.access[2].shape = "noEmail"
    /\ ~call.ok /\ call.err = "token_missing_fields"

\* C33: remainingLifetime(token) is max(0, exp - now) in whole seconds for a
\* decodable token with an expiry and 0 for a token that cannot be decoded
\* or has no expiry; it is never negative.
C33_RemainingLifetime ==
    call.op = "getTokenTimeRemaining" =>
        /\ call.value >= 0
        /\ (StructurallyValid(call.access) /\ ExpOf(call.access) > 0) =>
               call.value = (IF ExpOf(call.access) - call.at > 0
                             THEN ExpOf(call.access) - call.at ELSE 0)
        /\ (~StructurallyValid(call.access) \/ ExpOf(call.access) = 0) => call.value = 0

\* C33 witness: the lifetime of a token that expired one step ago was asked
\* for, and is 0
C33_Witness ==
    /\ call.op = "getTokenTimeRemaining"
    /\ StructurallyValid(call.access)
    /\ ExpOf(call.access) > 0 /\ ExpOf(call.access) < call.at
    /\ call.value = 0

\* C8: for a stored well-formed access token, getAccessToken() returns
\* exactly that token and leaves storage unchanged when its exp is in the
\* future; when its exp is in the past it fails with access_token_expired,
\* the tokens are purged, and the next getAccessToken() fails with
\* access_token_not_found.
C8_GetAccessTokenByExpiry ==
    (call.op = "getAccessToken" /\ WellFormedAccess(call.pre.access)) =>
        /\ call.pre.access[2].exp > call.at =>
               /\ call.ok
               /\ call.token = call.pre.access
               /\ store = call.pre
        /\ call.pre.access[2].exp < call.at =>
               /\ ~call.ok
               /\ call.err = "access_token_expired"
               /\ store.access = NoToken
               /\ ~GetAccessToken(store, now).ok
               /\ GetAccessToken(store, now).err = "access_token_not_found"

\* C8 witness: getAccessToken() has just run on a well-formed token whose
\* exp is in the past, beside a stored refresh token.
C8_Witness ==
    /\ call.op = "getAccessToken"
    /\ WellFormedAccess(call.pre.access)
    /\ call.pre.access[2].exp < call.at
    /\ call.pre.refresh # NoToken
    /\ call.err = "access_token_expired"

\* C9: an access token whose claims lack the subject, the email, the
\* issued-at or the expiry is never accepted: setTokens rejects it and
\* getAccessToken never returns it.
C9_LackingTokenRejected ==
    /\ (call.op = "setTokens" /\ LacksClaim(call.access)) => ~call.ok
    /\ (call.op = "getAccessToken" /\ call.ok) => ~LacksClaim(call.token)

\* C13: shouldRefreshToken() is true exactly when a structurally valid
\* access token is stored and its remaining lifetime r satisfies
\* 0 < r <= 300 s; it is false at r = 0, at r = 301 and when no valid token
\* is stored.
C13_ShouldRefreshWindow ==
    call.op = "shouldRefreshToken" =>
        /\ call.ok <=> /\ StructurallyValid(call.pre.access)
                       /\ 0 < Lifetime(call.pre.access, call.at)
                       /\ Lifetime(call.pre.access, call.at) <= 300
        /\ Lifetime(call.pre.access, call.at) \in {0, 301} => ~call.ok
        /\ ~StructurallyValid(call.pre.access) => ~call.ok

\* C13 witness: shouldRefreshToken() has answered true for a token with
\* exactly 300 s left.
C13_Witness ==
    /\ call.op = "shouldRefreshToken"
    /\ StructurallyValid(call.pre.access)
    /\ Lifetime(call.pre.access, call.at) = 300
    /\ call.ok

\* C14: setTokens writes nothing when either token fails structural
\* validation: it returns invalid_access_token_format for a bad access
\* token, invalid_refresh_token_format for a bad refresh token beside a good
\* access token, and the stored tokens are what they were before the call.
C14_SetTokensRejectsWhole ==
    call.op = "setTokens" =>
        /\ ~StructurallyValid(call.access) =>
               /\ ~call.ok /\ call.err = "invalid_access_token_format"
               /\ store = call.pre
        /\ (StructurallyValid(call.access) /\ ~StructurallyValid(call.refresh)) =>
               /\ ~call.ok /\ call.err = "invalid_refresh_token_format"
               /\ store = call.pre

\* C14 witness: setTokens has refused an opaque refresh token offered with
\* a good access token, over a stored pair.
C14_Witness ==
    /\ call.op = "setTokens"
    /\ StructurallyValid(call.access) /\ call.refresh = OpaqueTok
    /\ call.pre.access # NoToken /\ call.pre.access # call.access
    /\ call.pre.refresh # NoToken
    /\ call.err = "invalid_refresh_token_format"

\* C15 as stated: after a successful setTokens(a, r), getAccessToken()
\* returns a token whose decoded claims equal the claims encoded into a.
C15_RoundTrip ==
    (call.op = "setTokens" /\ call.ok) =>
        /\ GetAccessToken(store, call.at).ok
        /\ DecodeJWTPayload(GetAccessToken(store, call.at).token)
               = AtobJsonParse(call.access[2])

\* C15 amended: after a successful setTokens(a, r) with an access token a
\* that carries an exp claim not earlier than the current time,
\* getAccessToken() returns a token whose decoded claims equal the claims
\* encoded into a.
C15_RoundTripUnexpired ==
    (call.op = "setTokens" /\ call.ok /\ ExpOf(call.access) >= call.at) =>
        /\ GetAccessToken(store, call.at).ok
        /\ DecodeJWTPayload(GetAccessToken(store, call.at).token)
               = AtobJsonParse(call.access[2])

\* C15 witness: setTokens has stored an unexpired access token over a
\* different stored token, and getAccessToken() returns it.
C15_Witness ==
    /\ call.op = "setTokens" /\ call.ok
    /\ ExpOf(call.access) >= call.at
    /\ call.pre.access # NoToken /\ call.pre.access # call.access
    /\ GetAccessToken(store, call.at).token = call.access

\* C27: the stored pair is the pair before a write of setTokens or the
\* complete pair after it, never the new access token beside the old or
\* absent refresh token, also when a storage write fails part-way.
C27_PairWrittenWhole ==
    call.op = "setTokens" =>
        \/ store = call.pre
        \/ store = [access |-> call.access, refresh |-> call.refresh]

=============================================================================
